---- MODULE Spec2Model ----
(***************************************************************************)
(* A model of the orchwf workflow engine: the Orchestrator (registration,  *)
(* StartWorkflow, StartWorkflowAsync, ResumeWorkflow, executeWorkflow,      *)
(* executeSteps, executeStep) running against a StateManager, which is      *)
(* either the InMemoryStateManager or the DBStateManager.                   *)
(***************************************************************************)
EXTENDS Integers, Sequences, FiniteSets, TLC

\* ------------------------------------------------------------------ bounds

\* Largest RetryPolicy.MaxAttempts a definition of the model carries.
MaxPolicyAttempts == 2

\* Number of engine calls (StartWorkflow, StartWorkflowAsync, ResumeWorkflow)
\* made in one behaviour.
MaxCalls == 2

\* The caller of the state manager reads while it holds fewer entities than
\* this.
MaxHeld == 3

\* Largest number of lookups the caller of the state manager makes.
MaxLookups == 1

\* Largest number of steps a caller adds to a WorkflowBuilder.
MaxSteps == 2

\* ------------------------------------------------------ status vocabulary

WorkflowStatusPending == "pending"
WorkflowStatusRunning == "running"
WorkflowStatusCompleted == "completed"
WorkflowStatusFailed == "failed"
WorkflowStatusCancelled == "cancelled"
WorkflowStatusRetrying == "retrying"

StepStatusPending == "pending"
StepStatusRunning == "running"
StepStatusCompleted == "completed"
StepStatusFailed == "failed"
StepStatusSkipped == "skipped"
StepStatusRetrying == "retrying"

\* ------------------------------------------------------------- error values

\* An error is its message.  fmt.Errorf("step %s failed after %d attempts: %w")
\* puts a prefix in front of the executor's message; the prefix is kept apart
\* from the message so that messages can be compared.
NoError == [prefix |-> <<>>, msg |-> ""]

PlainError(m) == [prefix |-> <<>>, msg |-> m]

\* fmt.Errorf("failed to update workflow status: %w", err)
StoreError(m) == [prefix |-> <<"failed to update workflow status">>, msg |-> m]

\* The error of the last attempt handed on as it is, without the wrapping.
UnwrappedError(stepID, attempts, lastErr) == lastErr

StepFailedError(stepID, attempts, lastErr) ==
    [prefix |-> <<stepID, attempts>>, msg |-> lastErr.msg]

\* --------------------------------------------------------------------- maps

\* map[string]interface{} is a function from a finite set of keys.
EmptyMap == [k \in {} |-> 0]

\* for k, v := range src { dst[k] = v }
CopyInto(dst, src) ==
    [k \in (DOMAIN dst) \cup (DOMAIN src) |->
        IF k \in DOMAIN src THEN src[k] ELSE dst[k]]

\* dst[key] = value
Put(dst, key, value) ==
    [k \in (DOMAIN dst) \cup {key} |-> IF k = key THEN value ELSE dst[k]]

\* Values stored in the maps: a scalar, or a nested map (a step's whole output).
Scalar(x) == [kind |-> "scalar", val |-> x, map |-> EmptyMap]
Nested(m) == [kind |-> "map", val |-> 0, map |-> m]

\* A Go map is a reference: a map stored as a value of another map is the
\* address of the map object, and every copy of the value names the same
\* object.  Ref is such a value where the sharing matters; heap (below) maps
\* the addresses to the objects.
Ref(addr) == [kind |-> "ref", val |-> addr, map |-> EmptyMap]

\* What a reader of the map m sees when the objects are as in h.
Resolve(h, m) ==
    [k \in DOMAIN m |-> IF m[k].kind = "ref" THEN Nested(h[m[k].val]) ELSE m[k]]

\* ------------------------------------------------------ workflow definitions

\* stepDef.RetryPolicy == nil
NilPolicy == [isNil |-> TRUE, MaxAttempts |-> 0, RetryableErrors |-> {}]

RetryPolicy(maxAttempts, retryableErrors) ==
    [isNil |-> FALSE, MaxAttempts |-> maxAttempts, RetryableErrors |-> retryableErrors]

\* NewStepBuilder leaves Timeout at zero: no timeout.
StepDefinition(id, deps, policy, required, async, priority) ==
    [ID |-> id, Dependencies |-> deps, RetryPolicy |-> policy,
     Required |-> required, Async |-> async, Priority |-> priority,
     Timeout |-> 0]

\* StepBuilder.WithTimeout
WithTimeout(stepDef, timeout) == [stepDef EXCEPT !.Timeout = timeout]

StepNames == <<"s1", "s2", "s3">>

\* Messages the executors of the model fail with.
ErrMsgs == {"boom", "transient"}

\* The dependency lists of the definitions of the model, one list per step in
\* definition order: single steps, chains, a dependency declared before the
\* step it names, a fork, a join, and the graphs RegisterWorkflow does not
\* reject: a self-dependency, a cycle, a dependency on a step that is not there.
DepShapes ==
    { << <<>> >>,
      << <<"s1">> >>,
      << <<>>, <<>> >>,
      << <<>>, <<"s1">> >>,
      << <<"s2">>, <<>> >>,
      << <<"s2">>, <<"s1">> >>,
      << <<>>, <<"sX">> >>,
      << <<>>, <<"s1">>, <<"s1">> >>,
      << <<>>, <<>>, <<"s1", "s2">> >> }

\* The retry policies of the model: none, or one with MaxAttempts attempts
\* and with or without a RetryableErrors list.
Policies ==
    {NilPolicy} \cup
    { RetryPolicy(n, {}) : n \in 1..MaxPolicyAttempts } \cup
    { RetryPolicy(n, {"transient"}) : n \in 2..MaxPolicyAttempts }

\* The flags of the steps of a definition of n steps: at most one step is not
\* required; the steps after the first are all async or all sync; the
\* priorities are equal, or the last step's is the highest.
RequiredChoices(n) ==
    { req \in [1..n -> BOOLEAN] : Cardinality({ i \in 1..n : ~req[i] }) <= 1 }

AsyncChoices(n) ==
    { asy \in [1..n -> BOOLEAN] : \A i, j \in 2..n : asy[i] = asy[j] }

PriorityChoices(n) ==
    { [i \in 1..n |-> IF i = n /\ high THEN 5 ELSE 0] : high \in BOOLEAN }

\* The definitions handed to RegisterWorkflow.  The retry policy is carried by
\* the first step; the other steps have none.
MkDefinition(shape, required, async, priority, policy) ==
    [ID |-> "wf",
     Steps |-> [i \in 1..Len(shape) |->
                  StepDefinition(StepNames[i], shape[i],
                                 IF i = 1 THEN policy ELSE NilPolicy,
                                 required[i], async[i], priority[i])]]

Definitions ==
    UNION { { MkDefinition(shape, req, asy, pri, pol) :
                req \in RequiredChoices(Len(shape)),
                asy \in AsyncChoices(Len(shape)),
                pri \in PriorityChoices(Len(shape)),
                pol \in Policies }
            : shape \in DepShapes }

\* WorkflowBuilder: the definition under construction, and what Build
\* returned for it ("none" before Build, "ok" when it returned the definition,
\* the message of its error otherwise).  made is false until a definition is
\* under construction.
NoBuilder ==
    [workflow |-> [ID |-> "", Name |-> "", Steps |-> <<>>], result |-> "none", made |-> FALSE]

\* The steps a caller adds to a definition: NewStepBuilder(id, ...) with
\* WithDependencies(deps...), the other fields left as NewStepBuilder sets
\* them.  The dependencies name the step itself, the other step, or no step
\* of the definition.
BuilderSteps ==
    { StepDefinition(id, deps, NilPolicy, TRUE, FALSE, 0) :
        id \in {"s1", "s2"}, deps \in {<<>>, <<"s1">>, <<"s2">>, <<"sX">>} }

\* The identifiers of the steps of a definition (stepIDs of Build).
StepIDs(workflow) == { workflow.Steps[i].ID : i \in 1..Len(workflow.Steps) }

\* What WorkflowBuilder.Build returns: "ok" with the definition, or the
\* message of the first check that fails.
BuildResult(workflow) ==
    IF workflow.ID = "" THEN "workflow ID is required"
    ELSE IF workflow.Name = "" THEN "workflow name is required"
    ELSE IF Len(workflow.Steps) = 0 THEN "workflow must have at least one step"
    ELSE IF \E i \in 1..Len(workflow.Steps) :
              \E j \in 1..Len(workflow.Steps[i].Dependencies) :
                workflow.Steps[i].Dependencies[j] \notin StepIDs(workflow)
         THEN "invalid dependency"
    ELSE "ok"

\* ------------------------------------------------------------ state managers

\* A time.Time pointer is modelled by whether it is set.
WorkflowInstance(id, workflowID, input) ==
    [ID |-> id, WorkflowID |-> workflowID, Status |-> WorkflowStatusPending,
     Input |-> input, Output |-> EmptyMap, Context |-> EmptyMap,
     Steps |-> <<>>, CompletedAt |-> FALSE, Error |-> NoError]

StepInstance(id, stepID, workflowInstID, executionOrder) ==
    [ID |-> id, StepID |-> stepID, WorkflowInstID |-> workflowInstID,
     Status |-> StepStatusPending, Output |-> EmptyMap,
     StartedAt |-> FALSE, CompletedAt |-> FALSE, Error |-> NoError,
     RetryCount |-> 0, ExecutionOrder |-> executionOrder]

WorkflowEvent(workflowInstID, stepInstID, eventType, data) ==
    [WorkflowInstID |-> workflowInstID, StepInstID |-> stepInstID,
     EventType |-> eventType, EventData |-> data]

\* The state manager handed to NewOrchestrator: its kind and its three tables.
\* events is kept in the order of the SaveEvent calls.  eventsDown: the
\* INSERT into orchwf_workflow_events fails, SaveEvent returns its error.
NewStateManager(kind) ==
    [kind |-> kind, workflows |-> EmptyMap, steps |-> EmptyMap, events |-> <<>>,
     eventsDown |-> FALSE]

deepCopyStep(step) ==
    [ID |-> step.ID, StepID |-> step.StepID, WorkflowInstID |-> step.WorkflowInstID,
     Status |-> step.Status, Output |-> CopyInto(EmptyMap, step.Output),
     StartedAt |-> step.StartedAt, CompletedAt |-> step.CompletedAt,
     Error |-> step.Error, RetryCount |-> step.RetryCount,
     ExecutionOrder |-> step.ExecutionOrder]

deepCopyWorkflow(w) ==
    [ID |-> w.ID, WorkflowID |-> w.WorkflowID, Status |-> w.Status,
     Input |-> CopyInto(EmptyMap, w.Input), Output |-> CopyInto(EmptyMap, w.Output),
     Context |-> CopyInto(EmptyMap, w.Context),
     Steps |-> [i \in 1..Len(w.Steps) |-> deepCopyStep(w.Steps[i])],
     CompletedAt |-> w.CompletedAt, Error |-> w.Error]

\* The row INSERT INTO orchwf_workflow_instances writes: every column of the
\* instance, and none of its steps.
WorkflowRow(w) == [deepCopyWorkflow(w) EXCEPT !.Steps = <<>>]

IsTerminalWorkflowStatus(status) ==
    status \in {WorkflowStatusCompleted, WorkflowStatusFailed, WorkflowStatusCancelled}

IsTerminalStepStatus(status) ==
    status \in {StepStatusCompleted, StepStatusFailed, StepStatusSkipped}

SaveWorkflow(sm, w) ==
    [sm EXCEPT !.workflows =
        Put(@, w.ID, IF sm.kind = "memory" THEN deepCopyWorkflow(w) ELSE WorkflowRow(w))]

\* The steps of a workflow instance in the steps table.
StepRowsOf(sm, workflowInstID) ==
    { id \in DOMAIN sm.steps : sm.steps[id].WorkflowInstID = workflowInstID }

\* ORDER BY execution_order ASC: every order of the rows in which the
\* execution order never decreases (rows of equal order come in any order).
RECURSIVE OrderedByExecutionOrder(_, _)
OrderedByExecutionOrder(sm, ids) ==
    IF ids = {} THEN { <<>> }
    ELSE LET first == { id \in ids : \A other \in ids :
                          sm.steps[id].ExecutionOrder <= sm.steps[other].ExecutionOrder }
         IN  UNION { { <<deepCopyStep(sm.steps[id])>> \o rest :
                         rest \in OrderedByExecutionOrder(sm, ids \ {id}) }
                     : id \in first }

\* for _, step := range m.steps: Go ranges over a map in an order that is
\* not specified and differs from one loop to the next, so the rows come in
\* any order.
RECURSIVE RangeOrder(_, _)
RangeOrder(sm, ids) ==
    IF ids = {} THEN { <<>> }
    ELSE UNION { { <<deepCopyStep(sm.steps[id])>> \o rest :
                     rest \in RangeOrder(sm, ids \ {id}) }
                 : id \in ids }

\* What GetWorkflowSteps can return: the database manager orders the rows by
\* execution order, the in-memory manager appends them as its range loop
\* meets them.
GetWorkflowSteps(sm, workflowInstID) ==
    IF sm.kind = "memory"
    THEN RangeOrder(sm, StepRowsOf(sm, workflowInstID))
    ELSE OrderedByExecutionOrder(sm, StepRowsOf(sm, workflowInstID))

\* What GetWorkflow can return for a stored instance.  The in-memory manager
\* returns a copy of the instance as SaveWorkflow stored it, its Steps
\* included; the database manager returns the row with the rows of the steps
\* table as Steps.
GetWorkflow(sm, workflowInstID) ==
    IF sm.kind = "memory"
    THEN { deepCopyWorkflow(sm.workflows[workflowInstID]) }
    ELSE { [sm.workflows[workflowInstID] EXCEPT !.Steps = steps] :
             steps \in GetWorkflowSteps(sm, workflowInstID) }

UpdateWorkflowStatus(sm, workflowInstID, status) ==
    IF workflowInstID \notin DOMAIN sm.workflows THEN sm
    ELSE [sm EXCEPT !.workflows[workflowInstID] =
            [@ EXCEPT !.Status = status,
                      !.CompletedAt = IF IsTerminalWorkflowStatus(status) THEN TRUE ELSE @]]

\* The in-memory manager stamps CompletedAt; the database manager's UPDATE
\* sets error and status only.
UpdateWorkflowError(sm, workflowInstID, err) ==
    IF workflowInstID \notin DOMAIN sm.workflows THEN sm
    ELSE [sm EXCEPT !.workflows[workflowInstID] =
            [@ EXCEPT !.Error = err,
                      !.Status = WorkflowStatusFailed,
                      !.CompletedAt = IF sm.kind = "memory" THEN TRUE ELSE @]]

UpdateWorkflowOutput(sm, workflowInstID, output) ==
    IF workflowInstID \notin DOMAIN sm.workflows THEN sm
    ELSE [sm EXCEPT !.workflows[workflowInstID].Output = CopyInto(EmptyMap, output)]

SaveStep(sm, step) ==
    [sm EXCEPT !.steps = Put(@, step.ID, deepCopyStep(step))]

\* An UpdateStepStatus that makes the row it does not find.
UpsertStepStatus(sm, stepInstID, status) ==
    [sm EXCEPT !.steps =
        Put(@, stepInstID,
            [(IF stepInstID \in DOMAIN sm.steps THEN sm.steps[stepInstID]
              ELSE StepInstance(stepInstID, "", 0, 0))
                EXCEPT !.Status = status])]

UpdateStepStatus(sm, stepInstID, status) ==
    IF stepInstID \notin DOMAIN sm.steps THEN sm
    ELSE [sm EXCEPT !.steps[stepInstID] =
            [@ EXCEPT !.Status = status,
                      !.StartedAt = IF status = StepStatusRunning THEN TRUE ELSE @,
                      !.CompletedAt = IF IsTerminalStepStatus(status) THEN TRUE ELSE @]]

UpdateStepOutput(sm, stepInstID, output) ==
    IF stepInstID \notin DOMAIN sm.steps THEN sm
    ELSE [sm EXCEPT !.steps[stepInstID].Output = CopyInto(EmptyMap, output)]

\* An UpdateStepError that records the error and leaves the status alone.
RecordStepError(sm, stepInstID, err) ==
    IF stepInstID \notin DOMAIN sm.steps THEN sm
    ELSE [sm EXCEPT !.steps[stepInstID].Error = err]

UpdateStepError(sm, stepInstID, err) ==
    IF stepInstID \notin DOMAIN sm.steps THEN sm
    ELSE [sm EXCEPT !.steps[stepInstID] =
            [@ EXCEPT !.Error = err,
                      !.Status = StepStatusFailed,
                      !.CompletedAt = IF sm.kind = "memory" THEN TRUE ELSE @]]

SaveEvent(sm, event) ==
    [sm EXCEPT !.events = Append(@, event)]

\* An emitEvent that does not drop the error of SaveEvent: the owning
\* workflow is failed when the event cannot be saved.
emitEventOrFail(store, event) ==
    IF store.eventsDown
    THEN UpdateWorkflowStatus(store, event.WorkflowInstID, WorkflowStatusFailed)
    ELSE SaveEvent(store, event)

\* Orchestrator.emitEvent: the event is handed to SaveEvent and the error
\* SaveEvent returns is dropped.
emitEvent(store, event) ==
    IF store.eventsDown THEN store ELSE SaveEvent(store, event)

\* A state manager call made with a context that is done: DBStateManager
\* hands the context to db.ExecContext, which returns the context's error
\* and writes nothing; InMemoryStateManager does not look at the context.
Refused(done, store) == done /\ store.kind = "db"

WithContext(done, store, written) ==
    IF Refused(done, store) THEN store ELSE written

\* InMemoryStateManager.GetStep
GetStep(sm, stepInstID) == deepCopyStep(sm.steps[stepInstID])

\* InMemoryStateManager.ListWorkflows without filters and with a limit above
\* the number of instances: a copy of every instance.
ListWorkflows(sm) == { deepCopyWorkflow(sm.workflows[id]) : id \in DOMAIN sm.workflows }

\* InMemoryStateManager.GetWorkflowEvents: copies of the events of the
\* instance, here as a set.
GetWorkflowEvents(sm, workflowInstID) ==
    { sm.events[i] : i \in { j \in 1..Len(sm.events) :
                               sm.events[j].WorkflowInstID = workflowInstID } }

\* The caller of the state manager holds nothing yet: no entity it supplied
\* or was returned, nothing saved.  entities are the entities it holds, each
\* with its kind; saved is, per kind, what the payload map of the entity read
\* as when it was saved.
NothingHeld == [entities |-> {}, saved |-> EmptyMap]

\* The kinds of entity and the map field each carries.
EntityKinds == {"workflow", "step", "event"}

PayloadField(kind) ==
    CASE kind = "workflow" -> "Input"
      [] kind = "step" -> "Output"
      [] kind = "event" -> "EventData"

\* -------------------------------------------------------------- orchestrator

VARIABLES
    workflows,  \* Orchestrator.workflows: definition id -> definition
    sm,         \* Orchestrator.stateManager
    run,        \* the engine calls: call number -> its frame (see IdleRun)
    nextId,     \* the next identifier uuid.New() hands out
    calls,      \* number of engine calls made so far
    xlog,       \* executor invocations and returns, and the lookups of the
                \* state manager's caller, in the order they happen
    builder,    \* the WorkflowBuilder of the caller and what its Build returned
    heap,       \* the map objects shared by reference: address -> map
    held        \* the entities the caller of the state manager holds

\* The state of the code that calls the orchestrator and the state manager.
client == <<builder, heap, held>>

vars == <<workflows, sm, run, nextId, calls, xlog, builder, heap, held>>

Runs == 1..MaxCalls

\* The input mapping the caller starts the workflow with.
WorkflowInput == [data |-> Scalar("in"), x |-> Scalar("in")]

\* What the executor of a step returns when it succeeds: a key of its own
\* and a key every step writes.
OutputKey == [s1 |-> "k1", s2 |-> "k2", s3 |-> "k3"]

ExecutorOutput(stepID) ==
    Put(Put(EmptyMap, OutputKey[stepID], Scalar(stepID)), "x", Scalar(stepID))

\* The messages the executor of a step can fail with: a step whose policy
\* lists retryable errors fails with a listed or an unlisted message.
ExecutorErrors(stepDef) ==
    IF stepDef.RetryPolicy.RetryableErrors # {} THEN ErrMsgs ELSE {"boom"}

\* ctx.Err() of a cancelled context and of one whose deadline has passed.
ContextCanceled == "context canceled"
DeadlineExceeded == "context deadline exceeded"

\* The frame of executeStep for one step: where it is in the attempt loop.
\* expired: the deadline of the context.WithTimeout scope that executeStep
\* derived at its entry has passed.
NoTask == [pc |-> "none", attempt |-> 0, input |-> EmptyMap,
           lastErr |-> NoError, ret |-> NoError, expired |-> FALSE]

\* The frame of one engine call: the in-flight instance, the locals of
\* executeSteps (executed, syncSteps, asyncSteps as indices into
\* workflow.Steps, the loop index, the errors channel), one executeStep
\* frame per step of the definition, and the result handed back.
\* persistedDone records, for a ResumeWorkflow call, the steps the state
\* manager held as completed or skipped when the call loaded the instance.
\* callerDone: the context the caller passed to the call is cancelled;
\* ctxDone: the context executeWorkflow runs under is cancelled.
IdleRun ==
    [pc |-> "idle", op |-> "none",
     inst |-> WorkflowInstance(0, "", EmptyMap),
     executed |-> {}, syncSteps |-> <<>>, asyncSteps |-> <<>>, idx |-> 0,
     task |-> <<>>, errors |-> <<>>, err |-> NoError, persistedDone |-> {},
     callerDone |-> FALSE, ctxDone |-> FALSE,
     result |-> [Success |-> FALSE, Error |-> NoError, Output |-> EmptyMap]]

Init ==
    /\ workflows = EmptyMap
    /\ sm \in { NewStateManager(kind) : kind \in {"memory", "db"} }
    /\ run = [r \in Runs |-> IdleRun]
    /\ nextId = 1
    /\ calls = 0
    /\ xlog = <<>>
    /\ builder = NoBuilder
    /\ heap = EmptyMap
    /\ held = NothingHeld

\* Orchestrator.RegisterWorkflow
RegisterWorkflow(workflow) ==
    /\ workflow.ID # ""
    /\ workflows' = Put(workflows, workflow.ID, workflow)
    /\ UNCHANGED <<sm, run, nextId, calls, xlog, client>>

\* NewWorkflowBuilder(id, name)
NewWorkflowBuilder(id, name) ==
    /\ ~builder.made
    /\ builder' = [workflow |-> [ID |-> id, Name |-> name, Steps |-> <<>>],
                   result |-> "none", made |-> TRUE]
    /\ UNCHANGED <<workflows, sm, run, nextId, calls, xlog, heap, held>>

\* WorkflowBuilder.AddStep, on a definition that was neither built nor
\* registered yet.
AddStep(step) ==
    /\ builder.made
    /\ builder.result = "none"
    /\ workflows = EmptyMap
    /\ Len(builder.workflow.Steps) < MaxSteps
    /\ builder' = [builder EXCEPT !.workflow.Steps = Append(@, step)]
    /\ UNCHANGED <<workflows, sm, run, nextId, calls, xlog, heap, held>>

\* WorkflowBuilder.Build
Build ==
    /\ builder.made
    /\ builder.result = "none"
    /\ builder' = [builder EXCEPT !.result = BuildResult(builder.workflow)]
    /\ UNCHANGED <<workflows, sm, run, nextId, calls, xlog, heap, held>>

\* A caller of the in-memory state manager builds an entity whose payload
\* map has a scalar under "key" and a nested map under "cfg", and saves it
\* (SaveWorkflow, SaveStep or SaveEvent).  It keeps the entity it supplied.
ClientSave(kind) ==
    /\ sm.kind = "memory"
    /\ kind \notin DOMAIN held.saved
    /\ LET addr == Cardinality(DOMAIN heap) + 1
           payload == [key |-> Scalar("value"), cfg |-> Ref(addr)]
           entity ==
               CASE kind = "workflow" ->
                      WorkflowInstance("test-workflow", "test", payload)
                 [] kind = "step" ->
                      [StepInstance("test-step", "step1", "test-workflow", 1)
                          EXCEPT !.Output = payload]
                 [] kind = "event" ->
                      WorkflowEvent("test-workflow", "", "test.event", payload)
       IN  /\ heap' = Put(heap, addr, [key |-> Scalar("value")])
           /\ sm' = CASE kind = "workflow" -> SaveWorkflow(sm, entity)
                       [] kind = "step" -> SaveStep(sm, entity)
                       [] kind = "event" -> SaveEvent(sm, entity)
           /\ held' = [entities |-> held.entities \cup
                                      {[kind |-> kind, origin |-> "supplied", entity |-> entity]},
                       saved |-> Put(held.saved, kind, Resolve(heap', payload))]
    /\ UNCHANGED <<workflows, run, nextId, calls, xlog, builder>>

\* What a read of the saved entity of a kind returns, by read operation.
ReadResults(store, op) ==
    CASE op = "GetWorkflow" -> GetWorkflow(store, "test-workflow")
      [] op = "ListWorkflows" -> ListWorkflows(store)
      [] op = "GetStep" -> {GetStep(store, "test-step")}
      [] op = "GetWorkflowEvents" -> GetWorkflowEvents(store, "test-workflow")

KindRead(op) ==
    CASE op \in {"GetWorkflow", "ListWorkflows"} -> "workflow"
      [] op = "GetStep" -> "step"
      [] op = "GetWorkflowEvents" -> "event"

\* The caller reads the entity back and keeps what it was returned.
ClientRead(op) ==
    /\ sm.kind = "memory"
    /\ KindRead(op) \in DOMAIN held.saved
    /\ Cardinality(held.entities) < MaxHeld
    /\ held' = [held EXCEPT !.entities =
                   @ \cup { [kind |-> KindRead(op), origin |-> "returned", entity |-> e] :
                              e \in ReadResults(sm, op) }]
    /\ UNCHANGED <<workflows, sm, run, nextId, calls, xlog, builder, heap>>

\* The caller assigns through an entity it holds: entity.Input["key"] =
\* "modified" (depth 1) changes the entity's own map; entity.Input["cfg"]
\* ["key"] = "modified" (depth 2) changes the map object "cfg" refers to.
ClientMutate(e, depth) ==
    /\ e \in held.entities
    /\ LET field == PayloadField(e.kind)
           payload == e.entity[field]
       IN  \/ /\ depth = 1
              /\ payload["key"] # Scalar("modified")
              /\ held' = [held EXCEPT !.entities =
                            (@ \ {e}) \cup
                            {[e EXCEPT !.entity[field] = Put(payload, "key", Scalar("modified"))]}]
              /\ heap' = heap
           \/ /\ depth = 2
              /\ heap[payload["cfg"].val]["key"] # Scalar("modified")
              /\ heap' = [heap EXCEPT ![payload["cfg"].val] = Put(@, "key", Scalar("modified"))]
              /\ held' = held
    /\ UNCHANGED <<workflows, sm, run, nextId, calls, xlog, builder>>

\* The caller updates the workflow instance it saved: UpdateWorkflowStatus
\* with any status, or UpdateWorkflowError (update = "error").
ClientUpdateWorkflow(update) ==
    /\ sm.kind = "memory"
    /\ "test-workflow" \in DOMAIN sm.workflows
    /\ sm' = IF update = "error"
             THEN UpdateWorkflowError(sm, "test-workflow", PlainError("boom"))
             ELSE UpdateWorkflowStatus(sm, "test-workflow", update)
    /\ UNCHANGED <<workflows, run, nextId, calls, xlog, client>>

\* The caller updates the step instance it saved: UpdateStepStatus with any
\* status, or UpdateStepError (update = "error").
ClientUpdateStep(update) ==
    /\ sm.kind = "memory"
    /\ "test-step" \in DOMAIN sm.steps
    /\ sm' = IF update = "error"
             THEN UpdateStepError(sm, "test-step", PlainError("boom"))
             ELSE UpdateStepStatus(sm, "test-step", update)
    /\ UNCHANGED <<workflows, run, nextId, calls, xlog, client>>

\* The operations of the in-memory state manager that look an entity up by
\* its identifier, the table each looks in, and what each does to the store
\* when the caller passes the status failed, the error "boom" or the output
\* {"key": "value"}.
LookupOps ==
    {"GetWorkflow", "UpdateWorkflowStatus", "UpdateWorkflowOutput", "UpdateWorkflowError",
     "GetStep", "UpdateStepStatus", "UpdateStepOutput", "UpdateStepError"}

LookupTable(store, op) ==
    IF op \in {"GetWorkflow", "UpdateWorkflowStatus", "UpdateWorkflowOutput",
               "UpdateWorkflowError"}
    THEN store.workflows ELSE store.steps

ApplyLookup(store, op, id) ==
    CASE op \in {"GetWorkflow", "GetStep"} -> store
      [] op = "UpdateWorkflowStatus" -> UpdateWorkflowStatus(store, id, WorkflowStatusFailed)
      [] op = "UpdateWorkflowOutput" ->
            UpdateWorkflowOutput(store, id, [key |-> Scalar("value")])
      [] op = "UpdateWorkflowError" -> UpdateWorkflowError(store, id, PlainError("boom"))
      [] op = "UpdateStepStatus" -> UpdateStepStatus(store, id, StepStatusFailed)
      [] op = "UpdateStepOutput" -> UpdateStepOutput(store, id, [key |-> Scalar("value")])
      [] op = "UpdateStepError" -> UpdateStepError(store, id, PlainError("boom"))

\* A caller of the in-memory state manager looks an identifier up: with any
\* of the operations when the table does not have it, with a read when it
\* does.  The error the operation returns is logged with the call.
ClientLookup(op, id) ==
    /\ sm.kind = "memory"
    /\ id \in DOMAIN LookupTable(sm, op) => op \in {"GetWorkflow", "GetStep"}
    /\ Cardinality({ k \in 1..Len(xlog) : xlog[k].run = 0 }) < MaxLookups
    /\ sm' = ApplyLookup(sm, op, id)
    /\ xlog' = Append(xlog, [run |-> 0, step |-> op, id |-> id,
                             ev |-> IF id \in DOMAIN LookupTable(sm, op)
                                    THEN "ok" ELSE "not found"])
    /\ UNCHANGED <<workflows, run, nextId, calls, client>>

\* StepInstance.IsCompleted
StepIsCompleted(step) ==
    step.Status \in {StepStatusCompleted, StepStatusFailed, StepStatusSkipped}

\* IsCompleted that knows the completed status only.
WorkflowIsSuccessful(w) == w.Status = WorkflowStatusCompleted

\* WorkflowInstance.IsCompleted
WorkflowIsCompleted(w) ==
    w.Status \in {WorkflowStatusCompleted, WorkflowStatusFailed, WorkflowStatusCancelled}

\* The preparation StartWorkflow and StartWorkflowAsync share: the error of
\* Orchestrator.GetWorkflow is returned for a definition that is not
\* registered; otherwise a fresh pending instance is saved and
\* workflow.started is emitted.
NewWorkflow(r, workflowID, input, op) ==
    LET instance == WorkflowInstance(nextId, workflowID, input)
    IN  /\ r = calls + 1
        /\ run[r].pc = "idle"
        /\ IF workflowID \notin DOMAIN workflows
           THEN /\ run' = [run EXCEPT ![r] =
                             [IdleRun EXCEPT
                                !.pc = "done", !.op = op,
                                !.result = [Success |-> FALSE,
                                            Error |-> PlainError("workflow not found"),
                                            Output |-> EmptyMap]]]
                /\ UNCHANGED <<sm, nextId>>
           ELSE /\ sm' = emitEvent(SaveWorkflow(sm, instance),
                                   WorkflowEvent(instance.ID, 0, "workflow.started",
                                                 EmptyMap))
                /\ run' = [run EXCEPT ![r] = [IdleRun EXCEPT !.pc = "executeWorkflow",
                                                             !.op = op,
                                                             !.inst = instance]]
                /\ nextId' = nextId + 1
        /\ calls' = r
        /\ UNCHANGED <<workflows, xlog, client>>

\* Orchestrator.StartWorkflow, up to its call of executeWorkflow
StartWorkflow(r, workflowID, input) == NewWorkflow(r, workflowID, input, "start")

\* Orchestrator.StartWorkflowAsync: executeWorkflow runs in a goroutine
StartWorkflowAsync(r, workflowID, input) == NewWorkflow(r, workflowID, input, "async")

\* The steps of a workflow instance that the steps table holds as completed
\* or skipped.
PersistedDone(store, workflowInstID) ==
    { store.steps[id].StepID : id \in
        { id \in StepRowsOf(store, workflowInstID) :
            store.steps[id].Status \in {StepStatusCompleted, StepStatusSkipped} } }

\* Orchestrator.ResumeWorkflow: a terminal instance is returned as loaded,
\* any other goes to executeWorkflow
ResumeWorkflow(r, workflowInstID) ==
    /\ r = calls + 1
    /\ run[r].pc = "idle"
    /\ workflowInstID \in DOMAIN sm.workflows
    /\ \E instance \in GetWorkflow(sm, workflowInstID) :
          /\ instance.WorkflowID \in DOMAIN workflows
          /\ run' = [run EXCEPT ![r] =
                IF WorkflowIsCompleted(instance)
                THEN [IdleRun EXCEPT
                        !.pc = "done", !.op = "resume", !.inst = instance,
                        !.result = [Success |-> instance.Status = WorkflowStatusCompleted,
                                    Error |-> NoError,
                                    Output |-> instance.Output]]
                ELSE [IdleRun EXCEPT
                        !.pc = "executeWorkflow", !.op = "resume", !.inst = instance,
                        !.persistedDone = PersistedDone(sm, workflowInstID)]]
    /\ calls' = r
    /\ UNCHANGED <<workflows, sm, nextId, xlog, client>>

\* The definition a call runs.
DefOf(r) == workflows[run[r].inst.WorkflowID]

RECURSIVE SaveSteps(_, _, _)
SaveSteps(store, steps, i) ==
    IF i > Len(steps) THEN store
    ELSE SaveSteps(SaveStep(store, steps[i]), steps, i + 1)

\* executeWorkflow, from its entry to its call of executeSteps: the status
\* becomes running, and an instance without steps gets one pending step
\* instance per step of the definition, each saved.  When the state manager
\* refuses UpdateWorkflowStatus, executeWorkflow returns its error.
ExecuteWorkflow(r) ==
    /\ run[r].pc = "executeWorkflow"
    /\ LET instance == run[r].inst
           workflow == DefOf(r)
           create == Len(instance.Steps) = 0
           steps == [i \in 1..Len(workflow.Steps) |->
                       StepInstance(nextId + i - 1, workflow.Steps[i].ID,
                                    instance.ID, i - 1)]
       IN  IF Refused(run[r].ctxDone, sm)
           THEN /\ run' = [run EXCEPT
                             ![r].pc = "done",
                             ![r].inst.Status = WorkflowStatusRunning,
                             ![r].result = [Success |-> FALSE,
                                            Error |-> StoreError(ContextCanceled),
                                            Output |-> EmptyMap]]
                /\ UNCHANGED <<sm, nextId, client>>
           ELSE /\ run' = [run EXCEPT
                             ![r].pc = "loop",
                             ![r].inst = [instance EXCEPT
                                            !.Status = WorkflowStatusRunning,
                                            !.Steps = IF create THEN steps ELSE @],
                             ![r].executed = {},
                             ![r].task = [i \in 1..Len(workflow.Steps) |-> NoTask]]
                /\ sm' = LET running == UpdateWorkflowStatus(sm, instance.ID,
                                                             WorkflowStatusRunning)
                         IN  IF create THEN SaveSteps(running, steps, 1) ELSE running
                /\ nextId' = IF create THEN nextId + Len(workflow.Steps) ELSE nextId
    /\ UNCHANGED <<workflows, calls, xlog, client>>

\* stepInstMap[stepID] as executeSteps builds it: the last step instance of
\* instance.Steps with that StepID (0 when there is none).
StepInstIndex(instance, stepID) ==
    LET at == { i \in 1..Len(instance.Steps) : instance.Steps[i].StepID = stepID }
    IN  IF at = {} THEN 0 ELSE CHOOSE i \in at : \A j \in at : j <= i

\* Readiness without the dependency loop: every step not yet executed.
findUnexecutedSteps(workflow, executed) ==
    { i \in 1..Len(workflow.Steps) : workflow.Steps[i].ID \notin executed }

\* findReadySteps: the steps not yet executed all of whose dependencies are
\* executed, as indices into workflow.Steps.
findReadySteps(workflow, executed) ==
    { i \in 1..Len(workflow.Steps) :
        /\ workflow.Steps[i].ID \notin executed
        /\ \A d \in 1..Len(workflow.Steps[i].Dependencies) :
              workflow.Steps[i].Dependencies[d] \in executed }

\* The comparison of sort.Slice turned round: ascending Priority.
RECURSIVE SortedByAscendingPriority(_, _)
SortedByAscendingPriority(workflow, ready) ==
    IF ready = {} THEN { <<>> }
    ELSE LET first == { i \in ready : \A j \in ready :
                          workflow.Steps[i].Priority <= workflow.Steps[j].Priority }
         IN  UNION { { <<i>> \o rest :
                        rest \in SortedByAscendingPriority(workflow, ready \ {i}) }
                     : i \in first }

\* sort.Slice by descending Priority: sort.Slice is not stable, so steps of
\* equal priority come in any order.
RECURSIVE SortedByPriority(_, _)
SortedByPriority(workflow, ready) ==
    IF ready = {} THEN { <<>> }
    ELSE LET first == { i \in ready : \A j \in ready :
                          workflow.Steps[i].Priority >= workflow.Steps[j].Priority }
         IN  UNION { { <<i>> \o rest : rest \in SortedByPriority(workflow, ready \ {i}) }
                     : i \in first }

SelectIndices(workflow, order, async) ==
    SelectSeq(order, LAMBDA i : workflow.Steps[i].Async = async)

\* The pc of executeSteps at the end of a wave: the loop ends when every step
\* is in executed, and goes round again otherwise.
AfterWave(workflow, executed) ==
    IF Cardinality(executed) = Len(workflow.Steps) THEN "completed" ELSE "loop"

\* A scheduler that finds the ready steps again after every sync step.
AfterSyncRescan(workflow, f, idx, executed) ==
    IF idx <= Len(f.syncSteps) THEN (IF idx = 1 THEN "sync" ELSE "loop")
    ELSE IF Len(f.asyncSteps) > 0 THEN "async"
    ELSE AfterWave(workflow, executed)

\* A scheduler that starts the async steps of a wave before its sync steps.
AfterSyncAsyncFirst(workflow, f, idx, executed) ==
    IF Len(f.asyncSteps) > 0 THEN "async"
    ELSE IF idx <= Len(f.syncSteps) THEN "sync"
    ELSE AfterWave(workflow, executed)

\* The pc of executeSteps when the sync steps from position idx on are left.
AfterSync(workflow, f, idx, executed) ==
    IF idx <= Len(f.syncSteps) THEN "sync"
    ELSE IF Len(f.asyncSteps) > 0 THEN "async"
    ELSE AfterWave(workflow, executed)

\* executeSteps, the head of a wave: the ready steps are found, sorted by
\* priority and split into sync and async steps; without a ready step the
\* loop ends and executeSteps returns nil.
Wave(r) ==
    /\ run[r].pc = "loop"
    /\ LET f == run[r]
           workflow == DefOf(r)
           ready == findReadySteps(workflow, f.executed)
       IN  IF ready = {}
           THEN run' = [run EXCEPT ![r].pc = "completed"]
           ELSE \E order \in SortedByPriority(workflow, ready) :
                  LET g == [f EXCEPT !.syncSteps = SelectIndices(workflow, order, FALSE),
                                     !.asyncSteps = SelectIndices(workflow, order, TRUE),
                                     !.idx = 1,
                                     !.errors = <<>>]
                  IN  run' = [run EXCEPT ![r] =
                                [g EXCEPT !.pc = AfterSync(workflow, g, 1, f.executed)]]
    /\ UNCHANGED <<workflows, sm, nextId, calls, xlog, client>>

\* prepareStepInput, the dependency loop from position d on.
RECURSIVE AddDependencyOutputs(_, _, _, _)
AddDependencyOutputs(input, instance, deps, d) ==
    IF d > Len(deps) THEN input
    ELSE LET at == StepInstIndex(instance, deps[d])
         IN  IF at = 0
             THEN AddDependencyOutputs(input, instance, deps, d + 1)
             ELSE AddDependencyOutputs(
                    Put(CopyInto(input, instance.Steps[at].Output),
                        deps[d], Nested(instance.Steps[at].Output)),
                    instance, deps, d + 1)

\* prepareStepInput: the workflow input, then the outputs of the dependencies,
\* then the workflow context, later writers winning.
prepareStepInput(stepDef, instance) ==
    CopyInto(AddDependencyOutputs(CopyInto(EmptyMap, instance.Input), instance,
                                  stepDef.Dependencies, 1),
             instance.Context)

\* mergeStepOutput
mergeStepOutput(instance, stepID, output) ==
    [instance EXCEPT
        !.Context = CopyInto(Put(@, stepID, Nested(output)), output),
        !.Output = CopyInto(@, output)]

\* The number of attempts of executeStep's loop: a step without a policy
\* gets RetryPolicy{MaxAttempts: 1}.
MaxAttemptsOf(stepDef) ==
    IF stepDef.RetryPolicy.isNil THEN 1 ELSE stepDef.RetryPolicy.MaxAttempts

\* The loop condition with <= in the place of <.
AttemptLoopConditionInclusive(stepDef, attempt) ==
    attempt <= (IF stepDef.RetryPolicy.isNil THEN 1 ELSE stepDef.RetryPolicy.MaxAttempts)

\* The condition of executeStep's loop, for attempt := 0; attempt <
\* retryPolicy.MaxAttempts; attempt++: the error of a failed attempt plays no
\* part in it.
AttemptLoopCondition(stepDef, attempt) ==
    attempt < MaxAttemptsOf(stepDef)

\* executeStep, from its entry to the attempt loop: a step instance that is
\* already completed, failed or skipped returns nil at once.  A policy
\* without a first attempt leaves lastErr nil, and lastErr.Error() panics.
EnterStep(stepDef, instance) ==
    IF StepIsCompleted(instance.Steps[StepInstIndex(instance, stepDef.ID)])
    THEN [NoTask EXCEPT !.pc = "returned"]
    ELSE IF AttemptLoopCondition(stepDef, 0)
    THEN [NoTask EXCEPT !.pc = "attempt",
                        !.input = prepareStepInput(stepDef, instance)]
    ELSE [NoTask EXCEPT !.pc = "panicked",
                        !.input = prepareStepInput(stepDef, instance)]

\* A turn of the attempt loop that counts the attempts, not the retries.
BeginAttemptCountingAttempts(stepInst, attempt) ==
    IF attempt > 0
    THEN [stepInst EXCEPT !.Status = StepStatusRetrying, !.RetryCount = attempt + 1]
    ELSE [stepInst EXCEPT !.Status = StepStatusRunning, !.StartedAt = TRUE,
                          !.RetryCount = 1]

\* What a turn of the attempt loop does to the step instance before it calls
\* the executor: a retry sets it retrying with RetryCount = attempt, the
\* first attempt sets it running and stamps StartedAt.
BeginAttempt(stepInst, attempt) ==
    IF attempt > 0
    THEN [stepInst EXCEPT !.Status = StepStatusRetrying, !.RetryCount = attempt]
    ELSE [stepInst EXCEPT !.Status = StepStatusRunning, !.StartedAt = TRUE]

\* executeSteps, the sync loop at position idx: a completed step is marked
\* executed; any other is handed to executeStep.
SyncStep(r) ==
    /\ run[r].pc = "sync"
    /\ LET f == run[r]
           workflow == DefOf(r)
           i == f.syncSteps[f.idx]
           stepDef == workflow.Steps[i]
           stepInst == f.inst.Steps[StepInstIndex(f.inst, stepDef.ID)]
       IN  IF stepInst.Status = StepStatusCompleted
           THEN LET executed == f.executed \cup {stepDef.ID}
                IN  run' = [run EXCEPT ![r] =
                              [f EXCEPT !.executed = executed,
                                        !.idx = f.idx + 1,
                                        !.pc = AfterSync(workflow, f, f.idx + 1, executed)]]
           ELSE run' = [run EXCEPT ![r] =
                          [f EXCEPT !.pc = "syncStep",
                                    !.task[i] = EnterStep(stepDef, f.inst)]]
    /\ UNCHANGED <<workflows, sm, nextId, calls, xlog, client>>

\* The context executeStep hands to the executor and to the state manager
\* inside the attempt loop is done: stepCtx is ctx, or derived from it by
\* context.WithTimeout once, before the loop.
StepCtxDone(f, i) == f.ctxDone \/ f.task[i].expired

\* What the executor of step i can return: its output, one of its own
\* errors, or the error of its context when that is done.
ExecutorOutcomes(f, i, stepDef) ==
    {"ok"} \cup ExecutorErrors(stepDef)
           \cup (IF f.task[i].expired THEN {DeadlineExceeded} ELSE {})
           \cup (IF f.ctxDone THEN {ContextCanceled} ELSE {})

\* executeStep, one turn of the attempt loop up to the call of the executor:
\* a retry sets the step retrying with RetryCount = attempt and emits
\* step.retry; the first attempt sets it running and emits step.started.
Attempt(r, i) ==
    /\ run[r].pc \in {"syncStep", "wait"}
    /\ run[r].task[i].pc = "attempt"
    /\ LET f == run[r]
           stepDef == DefOf(r).Steps[i]
           t == f.task[i]
           at == StepInstIndex(f.inst, stepDef.ID)
           stepInst == f.inst.Steps[at]
           status == IF t.attempt > 0 THEN StepStatusRetrying ELSE StepStatusRunning
           event == IF t.attempt > 0
                    THEN WorkflowEvent(f.inst.ID, stepInst.ID, "step.retry",
                                       [attempt |-> Scalar(t.attempt + 1)])
                    ELSE WorkflowEvent(f.inst.ID, stepInst.ID, "step.started",
                                       [step_id |-> Scalar(stepDef.ID)])
       IN  /\ run' = [run EXCEPT ![r] =
                        [f EXCEPT !.inst.Steps[at] = BeginAttempt(stepInst, t.attempt),
                                  !.task[i].pc = "executing"]]
           /\ sm' = WithContext(StepCtxDone(f, i), sm,
                                 emitEvent(UpdateStepStatus(sm, stepInst.ID, status), event))
           /\ xlog' = Append(xlog, [run |-> r, step |-> stepDef.ID, ev |-> "invoke"])
    /\ UNCHANGED <<workflows, nextId, calls, client>>

\* executeStep, the executor has returned output and no error: the step is
\* completed and its output stored; mergeStepOutput comes next.
StepSucceeded(f, sm0, i, stepDef, output) ==
    LET at == StepInstIndex(f.inst, stepDef.ID)
        stepInst == f.inst.Steps[at]
        completed == [f.inst EXCEPT !.Steps[at] =
                        [@ EXCEPT !.Status = StepStatusCompleted,
                                  !.Output = output,
                                  !.CompletedAt = TRUE]]
    IN  [frame |-> [f EXCEPT !.inst = completed,
                             !.task[i].pc = "merging",
                             !.task[i].ret = NoError],
         store |-> WithContext(StepCtxDone(f, i), sm0,
                     emitEvent(
                       UpdateStepOutput(
                         UpdateStepStatus(sm0, stepInst.ID, StepStatusCompleted),
                         stepInst.ID, output),
                       WorkflowEvent(f.inst.ID, stepInst.ID, "step.completed", EmptyMap)))]

\* executeStep, after the attempt loop: the step is failed with the last
\* error, and executeStep returns that error wrapped.
StepFailed(f, sm0, i, stepDef, lastErr) ==
    LET at == StepInstIndex(f.inst, stepDef.ID)
        stepInst == f.inst.Steps[at]
    IN  [frame |-> [f EXCEPT !.inst.Steps[at] =
                                [@ EXCEPT !.Status = StepStatusFailed,
                                          !.Error = lastErr,
                                          !.CompletedAt = TRUE],
                             !.task[i].pc = "returned",
                             !.task[i].lastErr = lastErr,
                             !.task[i].ret =
                                StepFailedError(stepDef.ID, MaxAttemptsOf(stepDef), lastErr)],
         store |-> WithContext(f.ctxDone, sm0,
                     emitEvent(
                       UpdateStepError(
                         UpdateStepStatus(sm0, stepInst.ID, StepStatusFailed),
                         stepInst.ID, lastErr),
                       WorkflowEvent(f.inst.ID, stepInst.ID, "step.failed",
                                     [error |-> Scalar(lastErr.msg),
                                      retries |-> Scalar(stepInst.RetryCount)])))]

\* executeStep, the executor returns: with output, or with an error.
ExecutorReturns(r, i, outcome) ==
    /\ run[r].pc \in {"syncStep", "wait"}
    /\ run[r].task[i].pc = "executing"
    /\ LET f == run[r]
           stepDef == DefOf(r).Steps[i]
           t == f.task[i]
           next == IF outcome = "ok"
                   THEN StepSucceeded(f, sm, i, stepDef, ExecutorOutput(stepDef.ID))
                   ELSE IF AttemptLoopCondition(stepDef, t.attempt + 1)
                   THEN [frame |-> [f EXCEPT !.task[i].pc = "attempt",
                                             !.task[i].attempt = t.attempt + 1,
                                             !.task[i].lastErr = PlainError(outcome)],
                         store |-> sm]
                   ELSE StepFailed(f, sm, i, stepDef, PlainError(outcome))
       IN  /\ outcome \in ExecutorOutcomes(f, i, stepDef)
           /\ run' = [run EXCEPT ![r] = next.frame]
           /\ sm' = next.store
           /\ xlog' = Append(xlog, [run |-> r, step |-> stepDef.ID, ev |-> outcome])
    /\ UNCHANGED <<workflows, nextId, calls, client>>

\* executeStep, its last statement on success: mergeStepOutput writes the
\* output of the step into the Context and the Output of the workflow
\* instance, and executeStep returns nil.
MergeOutput(r, i) ==
    /\ run[r].pc \in {"syncStep", "wait"}
    /\ run[r].task[i].pc = "merging"
    /\ LET f == run[r]
           stepID == DefOf(r).Steps[i].ID
           output == f.inst.Steps[StepInstIndex(f.inst, stepID)].Output
       IN  run' = [run EXCEPT ![r] =
                     [f EXCEPT !.inst = mergeStepOutput(f.inst, stepID, output),
                               !.task[i].pc = "returned"]]
    /\ UNCHANGED <<workflows, sm, nextId, calls, xlog, client>>

\* A failed step that is not required put back to pending.
ResetStep(f, sm0, stepDef) ==
    LET at == StepInstIndex(f.inst, stepDef.ID)
    IN  [frame |-> [f EXCEPT !.inst.Steps[at].Status = StepStatusPending],
         store |-> UpdateStepStatus(sm0, f.inst.Steps[at].ID, StepStatusPending)]

\* A failed step that is not required left as executeStep returned it.
LeaveStepFailed(f, sm0, stepDef) == [frame |-> f, store |-> sm0]

\* What executeSteps does with a failed step that is not required: the step
\* instance becomes skipped.
SkipStep(f, sm0, stepDef) ==
    LET at == StepInstIndex(f.inst, stepDef.ID)
    IN  [frame |-> [f EXCEPT !.inst.Steps[at].Status = StepStatusSkipped],
         store |-> WithContext(f.ctxDone, sm0,
                               UpdateStepStatus(sm0, f.inst.Steps[at].ID,
                                                StepStatusSkipped))]

\* executeSteps, the sync loop after executeStep returned: the error of a
\* required step is returned; a step that is not required is skipped; the
\* step is marked executed and the loop goes on.
SyncStepReturn(r) ==
    /\ run[r].pc = "syncStep"
    /\ LET f == run[r]
           workflow == DefOf(r)
           i == f.syncSteps[f.idx]
           stepDef == workflow.Steps[i]
           t == f.task[i]
           executed == f.executed \cup {stepDef.ID}
           after == IF t.ret # NoError THEN SkipStep(f, sm, stepDef)
                    ELSE [frame |-> f, store |-> sm]
       IN  /\ t.pc = "returned"
           /\ IF t.ret # NoError /\ stepDef.Required
              THEN /\ run' = [run EXCEPT ![r] = [f EXCEPT !.pc = "failed",
                                                          !.err = t.ret,
                                                          !.task[i].pc = "none"]]
                   /\ sm' = sm
              ELSE /\ run' = [run EXCEPT ![r] =
                                [after.frame EXCEPT
                                    !.executed = executed,
                                    !.idx = f.idx + 1,
                                    !.task[i].pc = "none",
                                    !.pc = AfterSync(workflow, f, f.idx + 1, executed)]]
                   /\ sm' = after.store
    /\ UNCHANGED <<workflows, nextId, calls, xlog, client>>

\* executeSteps, the async loop: a completed step is marked executed, every
\* other gets a goroutine; then wg.Wait().
AsyncDispatch(r) ==
    /\ run[r].pc = "async"
    /\ LET f == run[r]
           workflow == DefOf(r)
           members == { f.asyncSteps[k] : k \in 1..Len(f.asyncSteps) }
           done == { i \in members :
                       f.inst.Steps[StepInstIndex(f.inst, workflow.Steps[i].ID)].Status
                          = StepStatusCompleted }
       IN  run' = [run EXCEPT ![r] =
                     [f EXCEPT !.pc = "wait",
                               !.executed = @ \cup { workflow.Steps[i].ID : i \in done },
                               !.task = [i \in DOMAIN f.task |->
                                           IF i \in members \ done
                                           THEN [NoTask EXCEPT !.pc = "spawned"]
                                           ELSE f.task[i]]]]
    /\ UNCHANGED <<workflows, sm, nextId, calls, xlog, client>>

\* The goroutine of an async step starts: it calls executeStep.
TaskStart(r, i) ==
    /\ run[r].pc = "wait"
    /\ run[r].task[i].pc = "spawned"
    /\ run' = [run EXCEPT ![r].task[i] = EnterStep(DefOf(r).Steps[i], run[r].inst)]
    /\ UNCHANGED <<workflows, sm, nextId, calls, xlog, client>>

\* The goroutine after executeStep returned: the error of a required step
\* goes to the errors channel, a step that is not required is skipped.
TaskReturn(r, i) ==
    /\ run[r].pc = "wait"
    /\ run[r].task[i].pc = "returned"
    /\ LET f == run[r]
           stepDef == DefOf(r).Steps[i]
           t == f.task[i]
           after == IF t.ret # NoError /\ ~stepDef.Required
                    THEN SkipStep(f, sm, stepDef)
                    ELSE [frame |-> f, store |-> sm]
       IN  /\ run' = [run EXCEPT ![r] =
                        [after.frame EXCEPT
                            !.errors = IF t.ret # NoError /\ stepDef.Required
                                       THEN Append(@, t.ret) ELSE @,
                            !.task[i].pc = "marking"]]
           /\ sm' = after.store
    /\ UNCHANGED <<workflows, nextId, calls, xlog, client>>

\* The goroutine's last statement, executed[sd.ID] = true, and wg.Done().
TaskMark(r, i) ==
    /\ run[r].pc = "wait"
    /\ run[r].task[i].pc = "marking"
    /\ run' = [run EXCEPT ![r].executed = @ \cup {DefOf(r).Steps[i].ID},
                          ![r].task[i].pc = "none"]
    /\ UNCHANGED <<workflows, sm, nextId, calls, xlog, client>>

\* A join that returns as soon as the errors channel holds an error, without
\* waiting for the other goroutines.
AsyncJoinOnFirstError(r) ==
    /\ run[r].pc = "wait"
    /\ \/ \A i \in DOMAIN run[r].task : run[r].task[i].pc = "none"
       \/ Len(run[r].errors) > 0
    /\ LET f == run[r]
       IN  run' = [run EXCEPT ![r] =
                     IF Len(f.errors) > 0
                     THEN [f EXCEPT !.pc = "failed", !.err = Head(f.errors)]
                     ELSE [f EXCEPT !.pc = AfterWave(DefOf(r), f.executed)]]
    /\ UNCHANGED <<workflows, sm, nextId, calls, xlog, client>>

\* executeSteps after wg.Wait(): the first error of the channel is returned;
\* without one the wave is over.
AsyncJoin(r) ==
    /\ run[r].pc = "wait"
    /\ \A i \in DOMAIN run[r].task : run[r].task[i].pc = "none"
    /\ LET f == run[r]
       IN  run' = [run EXCEPT ![r] =
                     IF Len(f.errors) > 0
                     THEN [f EXCEPT !.pc = "failed", !.err = Head(f.errors)]
                     ELSE [f EXCEPT !.pc = AfterWave(DefOf(r), f.executed)]]
    /\ UNCHANGED <<workflows, sm, nextId, calls, xlog, client>>

\* The failure branch of executeWorkflow as a saga engine would have it
\* (docs/lessons, lesson 6): before the workflow is failed, the compensators
\* of the completed steps are called, the last step first.
FailWorkflowCompensating(r) ==
    /\ run[r].pc = "failed"
    /\ LET f == run[r]
           n == Len(f.inst.Steps)
           done == SelectSeq([k \in 1..n |-> f.inst.Steps[n + 1 - k]],
                             LAMBDA step : step.Status = StepStatusCompleted)
       IN  /\ run' = [run EXCEPT ![r] =
                        [f EXCEPT !.pc = "done",
                                  !.inst = [@ EXCEPT !.Status = WorkflowStatusFailed,
                                                     !.Error = f.err,
                                                     !.CompletedAt = TRUE],
                                  !.result = [Success |-> FALSE, Error |-> f.err,
                                              Output |-> EmptyMap]]]
           /\ sm' = WithContext(f.ctxDone, sm,
                      emitEvent(
                        UpdateWorkflowError(
                          UpdateWorkflowStatus(sm, f.inst.ID, WorkflowStatusFailed),
                          f.inst.ID, f.err),
                        WorkflowEvent(f.inst.ID, 0, "workflow.failed",
                                      [error |-> Scalar(f.err)])))
           /\ xlog' = xlog \o [k \in 1..Len(done) |->
                                 [run |-> r, step |-> done[k].StepID, ev |-> "compensate"]]
    /\ UNCHANGED <<workflows, nextId, calls, client>>

\* executeWorkflow after executeSteps returned an error: the workflow is
\* failed with that error and the failure is returned.
FailWorkflow(r) ==
    /\ run[r].pc = "failed"
    /\ LET f == run[r]
       IN  /\ run' = [run EXCEPT ![r] =
                        [f EXCEPT !.pc = "done",
                                  !.inst = [@ EXCEPT !.Status = WorkflowStatusFailed,
                                                     !.Error = f.err,
                                                     !.CompletedAt = TRUE],
                                  !.result = [Success |-> FALSE, Error |-> f.err,
                                              Output |-> EmptyMap]]]
           /\ sm' = WithContext(f.ctxDone, sm,
                      emitEvent(
                        UpdateWorkflowError(
                          UpdateWorkflowStatus(sm, f.inst.ID, WorkflowStatusFailed),
                          f.inst.ID, f.err),
                        WorkflowEvent(f.inst.ID, 0, "workflow.failed",
                                      [error |-> Scalar(f.err)])))
    /\ UNCHANGED <<workflows, nextId, calls, xlog, client>>

\* executeWorkflow after executeSteps returned nil: the workflow is
\* completed; when the state manager refuses UpdateWorkflowStatus,
\* executeWorkflow returns its error and emits no event.
CompleteWorkflow(r) ==
    /\ run[r].pc = "completed"
    /\ LET f == run[r]
       IN  /\ run' = [run EXCEPT ![r] =
                        [f EXCEPT !.pc = "done",
                                  !.inst = [@ EXCEPT !.Status = WorkflowStatusCompleted,
                                                     !.CompletedAt = TRUE],
                                  !.result = IF Refused(f.ctxDone, sm)
                                             THEN [Success |-> FALSE,
                                                   Error |-> StoreError(ContextCanceled),
                                                   Output |-> EmptyMap]
                                             ELSE [Success |-> TRUE, Error |-> NoError,
                                                   Output |-> f.inst.Output]]]
           /\ sm' = WithContext(f.ctxDone, sm,
                      emitEvent(
                        UpdateWorkflowStatus(sm, f.inst.ID, WorkflowStatusCompleted),
                        WorkflowEvent(f.inst.ID, 0, "workflow.completed", EmptyMap)))
    /\ UNCHANGED <<workflows, nextId, calls, xlog, client>>

\* Every engine call runs under the context its caller passed.
CallerContext(op) == "caller"

\* The context executeWorkflow runs under: the one the caller passed to
\* StartWorkflow or ResumeWorkflow; context.Background() in the goroutine of
\* StartWorkflowAsync.
ContextOf(op) == IF op = "async" THEN "background" ELSE "caller"

\* The caller cancels the context it passed to a call that has not finished.
\* xlog records the moment.
CancelCaller(r) ==
    /\ run[r].pc \notin {"idle", "done"}
    /\ ~run[r].callerDone
    /\ run' = [run EXCEPT ![r].callerDone = TRUE,
                          ![r].ctxDone = IF ContextOf(run[r].op) = "caller" THEN TRUE ELSE @]
    /\ xlog' = Append(xlog, [run |-> r, step |-> "", ev |-> "cancel", scope |-> ""])
    /\ UNCHANGED <<workflows, sm, nextId, calls, client>>

\* The deadline of the context.WithTimeout scope of step i passes while
\* executeStep is in its attempt loop.
StepTimeout(r, i) ==
    /\ run[r].pc \in {"syncStep", "wait"}
    /\ run[r].task[i].pc \in {"attempt", "executing"}
    /\ DefOf(r).Steps[i].Timeout > 0
    /\ ~run[r].task[i].expired
    /\ run' = [run EXCEPT ![r].task[i].expired = TRUE]
    /\ xlog' = Append(xlog, [run |-> r, step |-> "", ev |-> "timeout",
                             scope |-> DefOf(r).Steps[i].ID])
    /\ UNCHANGED <<workflows, sm, nextId, calls, client>>

\* executeStep after an attempt loop that made no turn: the step instance is
\* set failed, and lastErr.Error() is called on a nil error: the goroutine
\* panics with a nil pointer dereference.  In the goroutine of an async step
\* or of StartWorkflowAsync nothing recovers the panic and the process ends;
\* in the caller's goroutine the panic unwinds the engine call, which
\* returns nothing.
StepPanics(r, i) ==
    /\ run[r].pc \in {"syncStep", "wait"}
    /\ run[r].task[i].pc = "panicked"
    /\ LET stepDef == DefOf(r).Steps[i]
           at == StepInstIndex(run[r].inst, stepDef.ID)
           unwound == [run EXCEPT ![r].inst.Steps[at].Status = StepStatusFailed,
                                  ![r].pc = "crashed"]
       IN  run' = IF stepDef.Async \/ run[r].op = "async"
                  THEN [q \in Runs |-> [unwound[q] EXCEPT !.pc = "crashed"]]
                  ELSE unwound
    /\ UNCHANGED <<workflows, sm, nextId, calls, xlog, client>>

\* The events table of the database becomes unavailable, or available again:
\* from then on db.ExecContext fails, or succeeds, in SaveEvent.
EventStoreFlips ==
    /\ sm.kind = "db"
    /\ sm' = [sm EXCEPT !.eventsDown = ~@]
    /\ UNCHANGED <<workflows, run, nextId, calls, xlog, client>>

\* Goroutines i and j of a wave are each about to touch the same map with no
\* lock between them: both write executed (executed[sd.ID] = true); both
\* write the Context and Output of the instance (mergeStepOutput); or one
\* writes the Context while the other is about to read it (prepareStepInput).
Racing(f, i, j) ==
    /\ i # j
    /\ \/ f.task[i].pc = "marking" /\ f.task[j].pc = "marking"
       \/ f.task[i].pc = "merging" /\ f.task[j].pc = "merging"
       \/ f.task[i].pc = "merging" /\ f.task[j].pc = "spawned"

\* The accesses of two racing goroutines overlap and the Go runtime detects
\* it: "fatal error: concurrent map writes" (or "concurrent map read and map
\* write") ends the process, every engine call with it.  When they do not
\* overlap, the goroutines go on as TaskStart, MergeOutput and TaskMark say.
ConcurrentMapAccess(r) ==
    /\ run[r].pc = "wait"
    /\ \E i, j \in DOMAIN run[r].task : Racing(run[r], i, j)
    /\ run' = [q \in Runs |-> [run[q] EXCEPT !.pc = "crashed"]]
    /\ UNCHANGED <<workflows, sm, nextId, calls, xlog, client>>

\* ------------------------------------------------------------ specifications

\* No engine call is in progress.
Quiet == \A r \in Runs : run[r].pc \in {"idle", "done"}

\* The steps of executeWorkflow, executeSteps and executeStep of call r.
Engine(r) ==
    \/ ExecuteWorkflow(r)
    \/ Wave(r)
    \/ SyncStep(r)
    \/ SyncStepReturn(r)
    \/ AsyncDispatch(r)
    \/ AsyncJoin(r)
    \/ FailWorkflow(r)
    \/ CompleteWorkflow(r)
    \/ \E i \in DOMAIN run[r].task :
          \/ Attempt(r, i)
          \/ MergeOutput(r, i)
          \/ TaskStart(r, i)
          \/ TaskReturn(r, i)
          \/ TaskMark(r, i)
          \/ \E outcome \in {"ok", ContextCanceled, DeadlineExceeded} \cup ErrMsgs :
                ExecutorReturns(r, i, outcome)

\* One orchestrator, one registered definition, one workflow instance: the
\* caller starts it with StartWorkflow and, each call having returned, calls
\* ResumeWorkflow on it.
Next ==
    \/ workflows = EmptyMap /\ \E d \in Definitions : RegisterWorkflow(d)
    \/ /\ "wf" \in DOMAIN workflows /\ sm.workflows = EmptyMap
       /\ \E r \in Runs : StartWorkflow(r, "wf", WorkflowInput)
    \/ Quiet /\ \E r \in Runs, id \in DOMAIN sm.workflows : ResumeWorkflow(r, id)
    \/ \E r \in Runs : Engine(r)
    \/ \E r \in Runs : ConcurrentMapAccess(r)

Spec == Init /\ [][Next]_vars

\* The definitions of at most two required steps without a retry policy,
\* without a step depending on itself or on a step that is not there, and
\* with at most one async step in a wave.
BackgroundDefinitions ==
    { d \in Definitions :
        /\ Len(d.Steps) <= 2
        /\ Len(d.Steps) = 2 => (d.Steps[2].Dependencies # <<>> \/ ~d.Steps[2].Async)
        /\ \A i \in 1..Len(d.Steps) :
              /\ d.Steps[i].Required
              /\ d.Steps[i].RetryPolicy.isNil
              /\ d.Steps[i].Priority = 0
              /\ \A k \in 1..Len(d.Steps[i].Dependencies) :
                    \E j \in 1..(i - 1) : d.Steps[j].ID = d.Steps[i].Dependencies[k] }

\* One orchestrator, one registered definition, one workflow instance: the
\* caller starts it with StartWorkflowAsync and calls ResumeWorkflow on it at
\* any time, while the goroutine of StartWorkflowAsync is running as well as
\* after it.
NextBackground ==
    \/ workflows = EmptyMap /\ \E d \in BackgroundDefinitions : RegisterWorkflow(d)
    \/ /\ "wf" \in DOMAIN workflows /\ sm.workflows = EmptyMap
       /\ \E r \in Runs : StartWorkflowAsync(r, "wf", WorkflowInput)
    \/ \E r \in Runs, id \in DOMAIN sm.workflows : ResumeWorkflow(r, id)
    \/ \E r \in Runs : Engine(r)

SpecBackground == Init /\ [][NextBackground]_vars

\* One orchestrator, one registered definition, one workflow instance started
\* with StartWorkflowAsync; the caller may cancel the context it passed.  The
\* Go scheduler lets the goroutine of StartWorkflowAsync run: a step of the
\* engine that stays possible is taken.
NextDetached ==
    \/ workflows = EmptyMap /\ \E d \in BackgroundDefinitions : RegisterWorkflow(d)
    \/ /\ "wf" \in DOMAIN workflows /\ sm.workflows = EmptyMap
       /\ \E r \in Runs : StartWorkflowAsync(r, "wf", WorkflowInput)
    \/ \E r \in Runs : CancelCaller(r)
    \/ \E r \in Runs : Engine(r)

SpecDetached ==
    Init /\ [][NextDetached]_vars /\ WF_vars(\E r \in Runs : Engine(r))

\* NewOrchestratorWithAsyncWorkers(stateManager, 1): the asyncWorkers field.
AsyncWorkers == 1

\* One orchestrator made with NewOrchestratorWithAsyncWorkers, one registered
\* definition; the caller starts workflow instances with StartWorkflowAsync,
\* one call after the other without waiting for the goroutines; the
\* definition has one step.  No function of the orchestrator reads
\* asyncWorkers.
NextWorkers ==
    \/ /\ workflows = EmptyMap
       /\ \E d \in { b \in BackgroundDefinitions : Len(b.Steps) = 1 } : RegisterWorkflow(d)
    \/ "wf" \in DOMAIN workflows /\ \E r \in Runs : StartWorkflowAsync(r, "wf", WorkflowInput)
    \/ \E r \in Runs : Engine(r)

SpecWorkers == Init /\ [][NextWorkers]_vars

\* The definitions of one step with or without a retry policy and a timeout.
ScopeDefinitions ==
    { [ID |-> "wf",
       Steps |-> << WithTimeout(StepDefinition("s1", <<>>, policy, required, async, 0),
                                timeout) >>] :
        policy \in Policies, required \in BOOLEAN, async \in BOOLEAN,
        timeout \in {0, 1} }

\* One StartWorkflow call whose caller may cancel the context it passed, and
\* whose step may run into its timeout.
NextScope ==
    \/ workflows = EmptyMap /\ \E d \in ScopeDefinitions : RegisterWorkflow(d)
    \/ /\ "wf" \in DOMAIN workflows /\ sm.workflows = EmptyMap
       /\ \E r \in Runs : StartWorkflow(r, "wf", WorkflowInput)
    \/ \E r \in Runs : CancelCaller(r)
    \/ \E r \in Runs : \E i \in DOMAIN run[r].task : StepTimeout(r, i)
    \/ \E r \in Runs : Engine(r)

SpecScope == Init /\ [][NextScope]_vars

\* One StartWorkflow call on a one-step definition without a timeout, with a
\* database whose events table fails and recovers at any time.
NextEvents ==
    \/ /\ workflows = EmptyMap
       /\ \E d \in { s \in ScopeDefinitions : s.Steps[1].Timeout = 0 } : RegisterWorkflow(d)
    \/ /\ "wf" \in DOMAIN workflows /\ sm.workflows = EmptyMap
       /\ \E r \in Runs : StartWorkflow(r, "wf", WorkflowInput)
    \/ EventStoreFlips
    \/ \E r \in Runs : Engine(r)

SpecEvents == Init /\ [][NextEvents]_vars

\* One orchestrator over the in-memory state manager with one registered
\* one-step definition, or none yet: the caller starts one workflow by the
\* registered identifier, makes calls by one that is not registered, and looks
\* workflow instances and step instances up in the state manager by
\* identifiers it holds and by identifiers the tables do not have.
NextLookup ==
    \/ /\ workflows = EmptyMap
       /\ \E d \in { b \in BackgroundDefinitions : Len(b.Steps) = 1 } : RegisterWorkflow(d)
    \/ /\ sm.workflows = EmptyMap
       /\ \E r \in Runs, id \in {"wf", "missing"} : StartWorkflow(r, id, WorkflowInput)
    \/ \E r \in Runs : StartWorkflowAsync(r, "missing", WorkflowInput)
    \/ \E op \in LookupOps, id \in {1, 2, 9} : ClientLookup(op, id)
    \/ \E r \in Runs : Engine(r)

SpecLookup == Init /\ [][NextLookup]_vars

\* The definitions of one or two steps whose first step has no retry policy,
\* or a RetryPolicy{} whose MaxAttempts was never set.
EmptyPolicyDefinitions ==
    UNION { { MkDefinition(shape, req, asy, pri, pol) :
                req \in RequiredChoices(Len(shape)),
                asy \in AsyncChoices(Len(shape)),
                pri \in PriorityChoices(Len(shape)),
                pol \in {NilPolicy, RetryPolicy(0, {})} }
            : shape \in { << <<>> >>, << <<>>, <<"s1">> >> } }

\* One StartWorkflow call on such a definition.
NextEmptyPolicy ==
    \/ workflows = EmptyMap /\ \E d \in EmptyPolicyDefinitions : RegisterWorkflow(d)
    \/ /\ "wf" \in DOMAIN workflows /\ sm.workflows = EmptyMap
       /\ \E r \in Runs : StartWorkflow(r, "wf", WorkflowInput)
    \/ \E r \in Runs : Engine(r)
    \/ \E r \in Runs : \E i \in DOMAIN run[r].task : StepPanics(r, i)

SpecEmptyPolicy == Init /\ [][NextEmptyPolicy]_vars

\* SpecEmptyPolicy where the goroutine of a call and the goroutines of its
\* steps are scheduled as long as they can run, and every executor that was
\* invoked returns.
SpecEmptyPolicyFair ==
    /\ SpecEmptyPolicy
    /\ WF_vars(\E r \in Runs : Engine(r))
    /\ WF_vars(\E r \in Runs : \E i \in DOMAIN run[r].task : StepPanics(r, i))

\* The definitions of three steps without a retry policy in which s1 and s2
\* have no dependency and s3 depends on s1 alone.
WaveDefinitions ==
    { MkDefinition(<< <<>>, <<>>, <<"s1">> >>, req, asy, pri, NilPolicy) :
        req \in RequiredChoices(3), asy \in AsyncChoices(3), pri \in PriorityChoices(3) }

\* One StartWorkflow call on such a definition.
NextWaves ==
    \/ workflows = EmptyMap /\ \E d \in WaveDefinitions : RegisterWorkflow(d)
    \/ /\ "wf" \in DOMAIN workflows /\ sm.workflows = EmptyMap
       /\ \E r \in Runs : StartWorkflow(r, "wf", WorkflowInput)
    \/ \E r \in Runs : Engine(r)
    \/ \E r \in Runs : ConcurrentMapAccess(r)

SpecWaves == Init /\ [][NextWaves]_vars

\* The definitions a caller hands to RegisterWorkflow: the one Build returned,
\* or a WorkflowDefinition it filled in without calling Build.
NextRegister ==
    \/ \E id \in {"", "wf"}, name \in {"", "Workflow"} : NewWorkflowBuilder(id, name)
    \/ \E step \in BuilderSteps : AddStep(step)
    \/ Build
    \/ builder.result = "ok" /\ RegisterWorkflow(builder.workflow)
    \/ builder.made /\ builder.result = "none" /\ RegisterWorkflow(builder.workflow)

SpecRegister == Init /\ [][NextRegister]_vars

\* A caller of the in-memory state manager alone: it saves entities, reads
\* them back, assigns through the entities it holds and updates the status
\* and the error of the workflow instance.
NextStore ==
    \/ \E kind \in EntityKinds : ClientSave(kind)
    \/ \E op \in {"GetWorkflow", "ListWorkflows", "GetStep", "GetWorkflowEvents"} :
          ClientRead(op)
    \/ \E e \in held.entities, depth \in {1, 2} : ClientMutate(e, depth)
    \/ \E update \in {WorkflowStatusRunning, WorkflowStatusCompleted, WorkflowStatusFailed,
                        WorkflowStatusCancelled, "error"} : ClientUpdateWorkflow(update)

SpecStore == Init /\ [][NextStore]_vars

\* A caller of the in-memory state manager alone: it saves a workflow
\* instance and a step instance and updates the status and the error of
\* each, in any order.
NextUpdates ==
    \/ \E kind \in {"workflow", "step"} : ClientSave(kind)
    \/ \E update \in {WorkflowStatusRunning, WorkflowStatusCompleted, WorkflowStatusFailed,
                        WorkflowStatusCancelled, WorkflowStatusRetrying, "error"} :
          ClientUpdateWorkflow(update)
    \/ \E update \in {StepStatusRunning, StepStatusCompleted, StepStatusFailed,
                        StepStatusSkipped, StepStatusRetrying, "error"} :
          ClientUpdateStep(update)

SpecUpdates == Init /\ [][NextUpdates]_vars

\* -------------------------------------------------------------------- claims

\* The step of a definition with a given identifier.
StepDefByID(workflow, stepID) ==
    workflow.Steps[CHOOSE i \in 1..Len(workflow.Steps) : workflow.Steps[i].ID = stepID]

DependenciesOf(stepDef) ==
    { stepDef.Dependencies[d] : d \in 1..Len(stepDef.Dependencies) }

\* The positions of xlog that belong to a step of a call, and those among
\* them at which its executor is invoked.
LogOf(r, stepID) ==
    { k \in 1..Len(xlog) : xlog[k].run = r /\ xlog[k].step = stepID }

InvocationsOf(r, stepID) ==
    { k \in LogOf(r, stepID) : xlog[k].ev = "invoke" }

ReturnsOf(r, stepID) == LogOf(r, stepID) \ InvocationsOf(r, stepID)

\* The call has returned to its caller.
Returned(r) == run[r].pc = "done"

\* The step instances a call's instance has in the steps table.
PersistedSteps(r) == { sm.steps[id] : id \in StepRowsOf(sm, run[r].inst.ID) }

\* The step instances of a call's in-flight instance.
InFlightSteps(r) == { run[r].inst.Steps[k] : k \in 1..Len(run[r].inst.Steps) }

\* The status a step instance may have in a completed workflow.
StatusFitsCompleted(workflow, step) ==
    IF StepDefByID(workflow, step.StepID).Required
    THEN step.Status = StepStatusCompleted
    ELSE step.Status \in {StepStatusCompleted, StepStatusSkipped}

\* C1: whenever StartWorkflow or ResumeWorkflow reports success, every
\* required step instance of the workflow is completed and every other step
\* instance is completed or skipped, in the returned instance and in the
\* state manager, for every definition RegisterWorkflow accepts.
C1_SuccessMeansStepsDone ==
    \A r \in Runs :
        (Returned(r) /\ run[r].result.Success) =>
            /\ \A step \in InFlightSteps(r) : StatusFitsCompleted(DefOf(r), step)
            /\ \A step \in PersistedSteps(r) : StatusFitsCompleted(DefOf(r), step)

\* The number of attempts the retry policy of a step allows: MaxAttempts of
\* the policy, 1 without a policy.
EffectiveMaxAttempts(stepDef) ==
    IF stepDef.RetryPolicy = NilPolicy THEN 1 ELSE stepDef.RetryPolicy.MaxAttempts

\* A failed workflow (its message is workflowError) has a required step
\* instance among steps that is failed with the message the relation
\* SameError accepts.
HasResponsibleStep(workflow, workflowError, steps, SameError(_, _, _)) ==
    \E step \in steps :
        /\ StepDefByID(workflow, step.StepID).Required
        /\ step.Status = StepStatusFailed
        /\ SameError(StepDefByID(workflow, step.StepID), workflowError, step.Error)

\* The workflows an engine run has left failed: in the state manager once
\* no call is in progress, and in the instance a failed run returns.
FailedWorkflowsHave(SameError(_, _, _)) ==
    /\ Quiet =>
         \A id \in DOMAIN sm.workflows :
            sm.workflows[id].Status = WorkflowStatusFailed =>
                HasResponsibleStep(workflows[sm.workflows[id].WorkflowID],
                                   sm.workflows[id].Error,
                                   { sm.steps[k] : k \in StepRowsOf(sm, id) }, SameError)
    /\ \A r \in Runs :
          (Returned(r) /\ run[r].err # NoError) =>
              /\ run[r].inst.Status = WorkflowStatusFailed
              /\ HasResponsibleStep(DefOf(r), run[r].inst.Error, InFlightSteps(r), SameError)

EqualError(stepDef, workflowError, stepError) == workflowError = stepError

PrefixedError(stepDef, workflowError, stepError) ==
    /\ workflowError.msg = stepError.msg
    /\ workflowError.prefix = <<stepDef.ID, EffectiveMaxAttempts(stepDef)>>
    /\ stepError.prefix = <<>>

SelectedNotStarted(r) ==
    LET f == run[r]
    IN  { f.syncSteps[k] : k \in { k \in 1..Len(f.syncSteps) : f.pc = "sync" /\ k >= f.idx } }
        \cup { f.asyncSteps[k] : k \in { k \in 1..Len(f.asyncSteps) : f.pc \in {"sync", "syncStep", "async"} } }

\* A step instance with the given status set exists for the step, in the
\* in-flight instance and in the state manager.
StepStatusIn(r, stepID, statuses) ==
    /\ \E step \in InFlightSteps(r) : step.StepID = stepID
    /\ \A step \in InFlightSteps(r) \cup PersistedSteps(r) :
          step.StepID = stepID => step.Status \in statuses

\* C3: the executor of a step is never invoked before the step instance of
\* each of its dependencies is completed, failed or skipped, and a step is
\* selected as ready only if it has not run yet and all its dependencies are
\* completed or skipped; sync and async steps alike.
C3_DependenciesFirst ==
    \A r \in Runs :
        /\ \A i \in DOMAIN run[r].task :
              run[r].task[i].pc \in {"attempt", "executing"} =>
                 \A dep \in DependenciesOf(DefOf(r).Steps[i]) :
                    /\ StepStatusIn(r, dep, {StepStatusCompleted, StepStatusFailed,
                                             StepStatusSkipped})
                    /\ ReturnsOf(r, dep) # {} =>
                          \A k \in LogOf(r, dep) : \A m \in LogOf(r, DefOf(r).Steps[i].ID) : k < m
        /\ \A i \in SelectedNotStarted(r) :
              /\ LogOf(r, DefOf(r).Steps[i].ID) = {}
              /\ StepStatusIn(r, DefOf(r).Steps[i].ID, {StepStatusPending})
              /\ \A dep \in DependenciesOf(DefOf(r).Steps[i]) :
                    StepStatusIn(r, dep, {StepStatusCompleted, StepStatusSkipped})

\* C3 witness: the executor of an async step with a dependency is running.
C3_Witness ==
    \E r \in Runs : \E i \in DOMAIN run[r].task :
        /\ run[r].task[i].pc = "executing"
        /\ DefOf(r).Steps[i].Async
        /\ DependenciesOf(DefOf(r).Steps[i]) # {}

\* C4: within one wave, of two sync steps the one with the higher priority
\* has its executor start and finish before the executor of the other
\* starts, wherever the steps stand in the definition.
C4_PriorityOrder ==
    \A r \in Runs :
        \A p, q \in 1..Len(run[r].syncSteps) :
            LET a == DefOf(r).Steps[run[r].syncSteps[p]]
                b == DefOf(r).Steps[run[r].syncSteps[q]]
            IN  (a.Priority > b.Priority /\ InvocationsOf(r, b.ID) # {}) =>
                    /\ InvocationsOf(r, a.ID) # {}
                    /\ Cardinality(ReturnsOf(r, a.ID)) = Cardinality(InvocationsOf(r, a.ID))
                    /\ \A k \in LogOf(r, a.ID) : \A m \in LogOf(r, b.ID) : k < m

\* C4 witness: two sync steps of one wave have both run, the one of higher
\* priority standing later in the definition.
C4_Witness ==
    \E r \in Runs :
        \E p, q \in 1..Len(run[r].syncSteps) :
            /\ DefOf(r).Steps[run[r].syncSteps[p]].Priority
                  > DefOf(r).Steps[run[r].syncSteps[q]].Priority
            /\ run[r].syncSteps[p] > run[r].syncSteps[q]
            /\ ReturnsOf(r, DefOf(r).Steps[run[r].syncSteps[p]].ID) # {}
            /\ ReturnsOf(r, DefOf(r).Steps[run[r].syncSteps[q]].ID) # {}

\* executeStep has returned an error for step i of the definition and
\* executeSteps has dealt with it.
ExhaustedAttempts(r, i) ==
    /\ run[r].task[i].pc = "none"
    /\ run[r].task[i].ret # NoError

\* The steps of the definition that depend on a step.
DependentsOf(workflow, stepID) ==
    { j \in 1..Len(workflow.Steps) : stepID \in DependenciesOf(workflow.Steps[j]) }

\* C5: when a step that is not required fails after exhausting its attempts,
\* the workflow is not aborted: the step ends skipped and counts as
\* executed, its error is not the error of the run, every step depending on
\* it whose dependencies are all executed still runs in a run that ends
\* completed, and the input of a dependent holds none of the outputs of the
\* failed step.
C5_OptionalFailureSkipped ==
    \A r \in Runs : \A i \in DOMAIN run[r].task :
        LET stepDef == DefOf(r).Steps[i]
        IN  (ExhaustedAttempts(r, i) /\ ~stepDef.Required) =>
              /\ StepStatusIn(r, stepDef.ID, {StepStatusSkipped})
              /\ stepDef.ID \in run[r].executed
              /\ run[r].err = NoError \/ run[r].err.prefix[1] # stepDef.ID
              /\ run[r].pc # "failed" \/ run[r].err.prefix[1] # stepDef.ID
              /\ \A j \in DependentsOf(DefOf(r), stepDef.ID) :
                    /\ (Returned(r) /\ run[r].result.Success
                          /\ DependenciesOf(DefOf(r).Steps[j]) \subseteq run[r].executed) =>
                          /\ InvocationsOf(r, DefOf(r).Steps[j].ID) # {}
                          /\ StepStatusIn(r, DefOf(r).Steps[j].ID,
                                          {StepStatusCompleted, StepStatusSkipped})
                    /\ InvocationsOf(r, DefOf(r).Steps[j].ID) # {} =>
                          /\ OutputKey[stepDef.ID] \notin DOMAIN run[r].task[j].input
                          /\ run[r].task[j].input[stepDef.ID] = Nested(EmptyMap)
                          /\ \A key \in DOMAIN run[r].task[j].input :
                                run[r].task[j].input[key] # Scalar(stepDef.ID)

\* C5 witness: a run has ended completed in which a step that is not
\* required failed and was skipped and a step depending on it completed.
C5_Witness ==
    \E r \in Runs : \E i \in DOMAIN run[r].task :
        /\ Returned(r) /\ run[r].result.Success
        /\ ExhaustedAttempts(r, i) /\ ~DefOf(r).Steps[i].Required
        /\ \E j \in DependentsOf(DefOf(r), DefOf(r).Steps[i].ID) :
              StepStatusIn(r, DefOf(r).Steps[j].ID, {StepStatusCompleted})

RetryEventsOf(stepInstID) ==
    { e \in 1..Len(sm.events) :
        sm.events[e].StepInstID = stepInstID /\ sm.events[e].EventType = "step.retry" }

\* The executor of the step failed k times and then succeeded, in call r.
SucceededAfter(r, stepID, k) ==
    /\ \E m \in ReturnsOf(r, stepID) : xlog[m].ev = "ok"
    /\ Cardinality({ m \in ReturnsOf(r, stepID) : xlog[m].ev # "ok" }) = k

\* C7: when the executor of a step fails on its first k attempts and
\* succeeds on attempt k + 1, it is invoked exactly k + 1 times, exactly k
\* step.retry events are emitted for the step, the step instance of the run
\* ends completed with RetryCount = k, and the run ends completed unless a
\* required step has failed.
C7_RetryThenSucceed ==
    \A r \in Runs : \A step \in InFlightSteps(r) : \A k \in 0..MaxPolicyAttempts :
        SucceededAfter(r, step.StepID, k) =>
            /\ k + 1 <= EffectiveMaxAttempts(StepDefByID(DefOf(r), step.StepID))
            /\ Cardinality(InvocationsOf(r, step.StepID)) = k + 1
            /\ \A m \in ReturnsOf(r, step.StepID) :
                  xlog[m].ev = "ok" => \A n \in LogOf(r, step.StepID) : n <= m
            /\ Cardinality(RetryEventsOf(step.ID)) = k
            /\ \A e \in RetryEventsOf(step.ID) :
                  sm.events[e].EventData["attempt"] \in { Scalar(a) : a \in 2..(k + 1) }
            /\ step.Status = StepStatusCompleted
            /\ step.RetryCount = k
            /\ sm.steps[step.ID].Status = StepStatusCompleted
            /\ (Returned(r) /\ \A other \in InFlightSteps(r) :
                                  other.Status = StepStatusFailed =>
                                     ~StepDefByID(DefOf(r), other.StepID).Required) =>
                  /\ run[r].result.Success
                  /\ run[r].inst.Status = WorkflowStatusCompleted
                  /\ sm.workflows[run[r].inst.ID].Status = WorkflowStatusCompleted

\* C7 witness: a run has ended completed in which the executor of a step
\* failed once and then succeeded.
C7_Witness ==
    \E r \in Runs : \E step \in InFlightSteps(r) :
        /\ SucceededAfter(r, step.StepID, 1)
        /\ Returned(r) /\ run[r].result.Success

\* C8 as stated: when the policy of a step lists retryable errors and an
\* attempt fails with a message that is not among them, the executor of the
\* step is not invoked again and the step is failed at once; when the list
\* is empty, a step is only failed after MaxAttempts invocations.
C8_UnlistedErrorStopsRetries ==
    \A r \in Runs : \A i \in DOMAIN run[r].task :
        LET stepDef == DefOf(r).Steps[i]
            listed == stepDef.RetryPolicy.RetryableErrors
        IN  /\ listed # {} =>
                 \A k \in ReturnsOf(r, stepDef.ID) :
                    xlog[k].ev \notin listed \cup {"ok"} =>
                        /\ \A m \in LogOf(r, stepDef.ID) : m <= k
                        /\ \E step \in InFlightSteps(r) :
                              step.StepID = stepDef.ID /\ step.Status # StepStatusRetrying
            /\ (listed = {} /\ run[r].task[i].ret # NoError) =>
                 Cardinality(InvocationsOf(r, stepDef.ID)) = EffectiveMaxAttempts(stepDef)

C10_ResumeSkipsPersistedDone ==
    \A r \in Runs :
        run[r].op = "resume" =>
            \A stepID \in run[r].persistedDone : InvocationsOf(r, stepID) = {}

\* C11 as stated: when StartWorkflow has returned failure for a workflow of a
\* single step, a ResumeWorkflow call on that instance invokes the executor
\* of the step again, and when that invocation succeeds the call reports
\* success and the workflow is completed.
C11_ResumeReexecutesFailedStep ==
    \A q, r \in Runs :
        (/\ run[q].op = "start" /\ Returned(q) /\ ~run[q].result.Success
         /\ run[r].op = "resume" /\ Returned(r)
         /\ run[r].inst.ID = run[q].inst.ID
         /\ Len(DefOf(r).Steps) = 1) =>
            /\ InvocationsOf(r, DefOf(r).Steps[1].ID) # {}
            /\ (\E k \in ReturnsOf(r, DefOf(r).Steps[1].ID) : xlog[k].ev = "ok") =>
                  /\ run[r].result.Success
                  /\ sm.workflows[run[r].inst.ID].Status = WorkflowStatusCompleted

\* What a caller polling GetWorkflowStatus reads is terminal.
PolledTerminal(id) ==
    \A w \in GetWorkflow(sm, id) :
        w.Status \in {WorkflowStatusCompleted, WorkflowStatusFailed, WorkflowStatusCancelled}

DeclaredDependencies(workflow, id) ==
    UNION { { workflow.Steps[i].Dependencies[j] :
                j \in 1..Len(workflow.Steps[i].Dependencies) }
            : i \in { k \in 1..Len(workflow.Steps) : workflow.Steps[k].ID = id } }

\* The identifiers reached from the set ids in at most n dependency edges.
RECURSIVE ReachedFrom(_, _, _)
ReachedFrom(workflow, ids, n) ==
    IF n = 0 THEN ids
    ELSE ReachedFrom(workflow,
                     ids \cup UNION { DeclaredDependencies(workflow, id) : id \in ids },
                     n - 1)

\* Some step of the definition depends on itself, directly or through other
\* steps.
HasCycle(workflow) ==
    \E id \in StepIDs(workflow) :
        id \in ReachedFrom(workflow, DeclaredDependencies(workflow, id),
                           Len(workflow.Steps))

\* No two steps of the definition carry the same identifier.
UniqueStepIDs(workflow) ==
    \A i, j \in 1..Len(workflow.Steps) :
        workflow.Steps[i].ID = workflow.Steps[j].ID => i = j

\* Every dependency of the definition names one of its steps.
DependenciesDeclared(workflow) ==
    \A id \in StepIDs(workflow) : DeclaredDependencies(workflow, id) \subseteq StepIDs(workflow)

\* C13: a definition whose dependency graph has a cycle, a step depending on
\* itself included, is rejected by WorkflowBuilder.Build or by
\* RegisterWorkflow: the registry never holds a cyclic definition, not even
\* one that Build returned.  The code has no cycle check in either place, so
\* this is violated.
C13_NoCyclicDefinitionRegistered ==
    \A id \in DOMAIN workflows :
        builder.result = "ok" => ~HasCycle(workflows[id])

\* C14: RegisterWorkflow stores only definitions with a non-empty identifier,
\* at least one step, pairwise different step identifiers and dependencies
\* that name steps of the definition; and WorkflowBuilder.Build returns only
\* definitions with an identifier, a name, a step and declared dependencies.
\* RegisterWorkflow checks the identifier only, so this is violated.
C14_RegisteredDefinitionsValid ==
    /\ \A id \in DOMAIN workflows :
          /\ workflows[id].ID # ""
          /\ Len(workflows[id].Steps) > 0
          /\ UniqueStepIDs(workflows[id])
          /\ DependenciesDeclared(workflows[id])
    /\ builder.result = "ok" =>
          /\ builder.workflow.ID # ""
          /\ builder.workflow.Name # ""
          /\ Len(builder.workflow.Steps) > 0
          /\ DependenciesDeclared(builder.workflow)

\* C15: what the in-memory state manager stores is isolated from its callers:
\* whatever a caller assigns through an entity it supplied or was returned,
\* at any nesting depth of the entity's maps, every read of a saved entity
\* still returns the payload as it was saved.  The copies are one level deep,
\* so an assignment inside a nested map shows in later reads: violated.
C15_StoreIsolated ==
    \A op \in {"GetWorkflow", "ListWorkflows", "GetStep", "GetWorkflowEvents"} :
        KindRead(op) \in DOMAIN held.saved =>
            \A e \in ReadResults(sm, op) :
                Resolve(heap, e[PayloadField(KindRead(op))]) = held.saved[KindRead(op)]

\* The status changes of one step of the model: <<StepID, old, new>> for every
\* step instance an engine call holds before and after the step.
StatusChanges ==
    UNION { { <<run[r].inst.Steps[k].StepID, run[r].inst.Steps[k].Status,
                run'[r].inst.Steps[k].Status>> :
                k \in { j \in 1..Len(run[r].inst.Steps) :
                          /\ j <= Len(run'[r].inst.Steps)
                          /\ run'[r].inst.Steps[j].ID = run[r].inst.Steps[j].ID } }
            : r \in Runs }

\* The status machine as the claim words it.
ClaimedStatusChange(old, new) ==
    \/ old = new
    \/ old = StepStatusPending /\ new = StepStatusRunning
    \/ old = StepStatusRunning
          /\ new \in {StepStatusCompleted, StepStatusFailed, StepStatusSkipped}

\* The status machine of executeStep and executeSteps: a retry changes
\* running to retrying, where the step stays until it is completed or failed,
\* and a failed step that is not required is then changed to skipped.
CodedStatusChange(stepDef, old, new) ==
    \/ old = new
    \/ old = StepStatusPending /\ new = StepStatusRunning
    \/ old = StepStatusRunning /\ new = StepStatusRetrying
    \/ old \in {StepStatusRunning, StepStatusRetrying}
          /\ new \in {StepStatusCompleted, StepStatusFailed}
    \/ old = StepStatusFailed /\ new = StepStatusSkipped /\ ~stepDef.Required

StepEventTypes(stepInstID) ==
    LET OfStep(e) == e.StepInstID = stepInstID
        events == SelectSeq(sm.events, OfStep)
    IN  [k \in 1..Len(events) |-> events[k].EventType]

\* A prefix of: step.started, step.retry any number of times, then one of
\* step.completed and step.failed.
StepEventPrefix(types) ==
    \A k \in 1..Len(types) :
        /\ (k = 1) <=> (types[k] = "step.started")
        /\ k > 1 => types[k] \in {"step.retry", "step.completed", "step.failed"}
        /\ types[k] \in {"step.completed", "step.failed"} => k = Len(types)

\* C17: for every step instance, the step events emitted for it are, in
\* emission order, a prefix of step.started, step.retry*, then one of
\* step.completed and step.failed, and nothing follows the last of these.
\* It holds while one engine call executes the instance; a ResumeWorkflow
\* call that loads a step instance another call has started executes it
\* under the same identifier and emits a second step.started: violated.
C17_StepEventOrder ==
    \A id \in DOMAIN sm.steps : StepEventPrefix(StepEventTypes(id))

\* Position j of xlog is an invocation of the executor of the step by call r
\* that has not returned by position k.
AttemptOpenAt(r, stepID, j, k) ==
    /\ j \in InvocationsOf(r, stepID)
    /\ j < k
    /\ \A m \in ReturnsOf(r, stepID) : m < j \/ m > k

\* C18: when the context passed to the engine is cancelled during an attempt
\* of a step, the step is not retried: its executor is not invoked again.
\* executeStep never looks at the context, so the attempt loop goes on and
\* this is violated.
C18_CancelledAttemptNotRetried ==
    \A r \in Runs : \A k \in 1..Len(xlog) :
        (xlog[k].run = r /\ xlog[k].ev = "cancel" /\ run[r].ctxDone) =>
            \A stepID \in StepIDs(workflows["wf"]) :
                (\E j \in 1..Len(xlog) : AttemptOpenAt(r, stepID, j, k)) =>
                    \A m \in InvocationsOf(r, stepID) : m < k

\* C19: the timeout of a step is per attempt: an attempt that ran into the
\* timeout does not make the next attempt start under the expired scope.
\* Read on the model: no invocation of the executor follows the expiry of the
\* step's scope when the expiry happened during an earlier attempt.
\* executeStep derives the scope once, before the attempt loop, so this is
\* violated.
C19_RetryUnderFreshScope ==
    \A r \in Runs : \A k \in 1..Len(xlog) :
        (/\ xlog[k].run = r
         /\ xlog[k].ev = "timeout"
         /\ \E j \in 1..Len(xlog) : AttemptOpenAt(r, xlog[k].scope, j, k)) =>
            \A m \in InvocationsOf(r, xlog[k].scope) : m < k

\* The steps of the async wave of a call, as indices into the definition.
AsyncMembers(r) == { run[r].asyncSteps[k] : k \in 1..Len(run[r].asyncSteps) }

\* The step instance call r holds for step i of the definition.
InstanceOfStep(r, i) ==
    run[r].inst.Steps[StepInstIndex(run[r].inst, workflows["wf"].Steps[i].ID)]

\* executeSteps goes from the async loop to wg.Wait(): every step of the wave
\* that is not completed already has a goroutine.
WaveDispatched(r) ==
    (run[r].pc = "async" /\ run'[r].pc = "wait") =>
        \A i \in AsyncMembers(r) :
            \/ InstanceOfStep(r, i).Status = StepStatusCompleted
            \/ run'[r].task[i].pc = "spawned"

\* executeSteps leaves wg.Wait(): every goroutine of the wave is over, every
\* invocation of an executor has returned and every step instance of the wave
\* is completed, failed or skipped.
WaveJoined(r) ==
    (run[r].pc = "wait" /\ run'[r].pc \notin {"wait", "crashed"}) =>
        \A i \in AsyncMembers(r) :
            /\ run[r].task[i].pc = "none"
            /\ StepIsCompleted(InstanceOfStep(r, i))
            /\ Cardinality(InvocationsOf(r, workflows["wf"].Steps[i].ID))
                  = Cardinality(ReturnsOf(r, workflows["wf"].Steps[i].ID))

\* The call has returned: every step it dispatched is terminal, in its
\* instance and in the steps table, no executor was told of a cancellation,
\* and a failed required step makes the workflow failed.
WaveSettled(r) ==
    Returned(r) =>
        /\ \A step \in InFlightSteps(r) :
              InvocationsOf(r, step.StepID) # {} =>
                  /\ StepIsCompleted(step)
                  /\ StepIsCompleted(sm.steps[step.ID])
                  /\ \A m \in ReturnsOf(r, step.StepID) : xlog[m].ev # ContextCanceled
        /\ (\E step \in InFlightSteps(r) :
               /\ step.Status = StepStatusFailed
               /\ StepDefByID(workflows["wf"], step.StepID).Required)
             => /\ ~run[r].result.Success
                /\ run[r].inst.Status = WorkflowStatusFailed

\* C20: a wave of k parallel steps gets k concurrent tasks and executeSteps
\* goes on only when all k are over; when a required step of the wave fails
\* the workflow ends failed, the other tasks of the wave are not cancelled,
\* and the step instance of every dispatched step is terminal when the
\* result is returned.
C20_ParallelWave ==
    /\ [][\A r \in Runs : WaveDispatched(r) /\ WaveJoined(r)]_vars
    /\ [](\A r \in Runs : WaveSettled(r))

\* Two steps of one wave ran at the same time, the required one failed, the
\* other completed after that failure, and the call has returned failure.
C20_Witness ==
    \E r \in Runs : \E a, b \in AsyncMembers(r) :
        LET stepA == workflows["wf"].Steps[a]
            stepB == workflows["wf"].Steps[b]
        IN  /\ Returned(r)
            /\ ~run[r].result.Success
            /\ a # b
            /\ stepA.Required
            /\ \E ia \in InvocationsOf(r, stepA.ID), ib \in InvocationsOf(r, stepB.ID),
                  fa \in ReturnsOf(r, stepA.ID), ob \in ReturnsOf(r, stepB.ID) :
                  /\ ia < fa /\ ib < fa /\ fa < ob
                  /\ xlog[fa].ev # "ok"
                  /\ xlog[ob].ev = "ok"
                  /\ InstanceOfStep(r, a).Status = StepStatusFailed
                  /\ InstanceOfStep(r, b).Status = StepStatusCompleted

\* C21: when a required step of a parallel wave fails, the outputs of the
\* steps of that wave that completed appear neither in the output of the
\* returned result nor in the output of the workflow instance.  The result of
\* a failure carries no output, but mergeStepOutput has written the output of
\* every completed step into the instance the result hands back: violated.
C21_SiblingOutputsDiscarded ==
    \A r \in Runs :
        (/\ Returned(r)
         /\ ~run[r].result.Success
         /\ \E a \in AsyncMembers(r) :
               /\ workflows["wf"].Steps[a].Required
               /\ InstanceOfStep(r, a).Status = StepStatusFailed) =>
            \A b \in AsyncMembers(r) :
                InstanceOfStep(r, b).Status = StepStatusCompleted =>
                    /\ OutputKey[workflows["wf"].Steps[b].ID] \notin DOMAIN run[r].result.Output
                    /\ OutputKey[workflows["wf"].Steps[b].ID] \notin DOMAIN run[r].inst.Output

\* C22: the writes of the tasks of a parallel wave to the state they share
\* are serialized: no two tasks are ever about to write the executed set, or
\* the Context and Output of the workflow instance, at the same time, and no
\* task is about to read the Context while another is about to write it.
\* executeSteps and mergeStepOutput take no lock, so this is violated.
C22_SharedStateSerialized ==
    \A r \in Runs : \A i, j \in DOMAIN run[r].task :
        run[r].pc = "wait" => ~Racing(run[r], i, j)

\* The detached workflows that are executing: started by StartWorkflowAsync
\* and not yet over.
DetachedExecuting ==
    { r \in Runs : run[r].op = "async" /\ run[r].pc \notin {"idle", "done", "crashed"} }

\* C23: with an orchestrator made for n async workers, never more than n
\* detached workflows execute at once.  StartWorkflowAsync starts a goroutine
\* per call whatever asyncWorkers is, so this is violated.
C23_DetachedWorkflowsBounded ==
    Cardinality(DetachedExecuting) <= AsyncWorkers

\* C24: in the in-memory store, after any sequence of SaveWorkflow of a fresh
\* pending instance, UpdateWorkflowStatus and UpdateWorkflowError, the
\* instance has completed_at set exactly when its status is completed, failed
\* or cancelled.  UpdateWorkflowStatus stamps completed_at and never clears
\* it, so a status set back to running keeps the stamp: violated.
C24_CompletedAtIffTerminal ==
    \A id \in DOMAIN sm.workflows :
        sm.workflows[id].CompletedAt <=> IsTerminalWorkflowStatus(sm.workflows[id].Status)

\* C25: once a call has gone through executeWorkflow's creation of step
\* instances, the steps table holds for the call's workflow instance exactly
\* one step instance per step of the definition: as many rows as the
\* definition has steps, and a resume adds no second row for a step.
C25_OneStepInstancePerStep ==
    \A r \in Runs :
        run[r].pc \notin {"idle", "executeWorkflow"} /\ Len(run[r].inst.Steps) > 0 =>
            LET rows == StepRowsOf(sm, run[r].inst.ID)
            IN  /\ Cardinality(rows) = Len(DefOf(r).Steps)
                /\ \A i \in 1..Len(DefOf(r).Steps) :
                      Cardinality({ id \in rows :
                                      sm.steps[id].StepID = DefOf(r).Steps[i].ID }) = 1

\* C26: GetWorkflow returns a stored workflow instance together with its step
\* instances as the steps table holds them now, current status included.
C26_GetWorkflowReturnsSteps ==
    \A id \in DOMAIN sm.workflows :
        \A instance \in GetWorkflow(sm, id) :
            { instance.Steps[i] : i \in 1..Len(instance.Steps) }
                = { deepCopyStep(sm.steps[row]) : row \in StepRowsOf(sm, id) }

\* C27: a call whose scheduling loop found no ready step reports success only
\* when every step instance of the workflow is in a terminal status
\* (completed, failed or skipped); with a step instance still pending,
\* running or retrying the call ends as a failure.
C27_SuccessOnlyWhenAllTerminal ==
    \A r \in Runs :
        run[r].pc \in {"completed", "done"} /\ run[r].op # "none"
        /\ (Returned(r) => run[r].result.Success) =>
            \A step \in InFlightSteps(r) : IsTerminalStepStatus(step.Status)

\* The dependencies of a step, by position, that have a step instance, and
\* the output of the step instance of one of them.
PresentDependencies(stepDef, instance) ==
    { d \in 1..Len(stepDef.Dependencies) :
        StepInstIndex(instance, stepDef.Dependencies[d]) # 0 }

DependencyOutput(stepDef, instance, d) ==
    instance.Steps[StepInstIndex(instance, stepDef.Dependencies[d])].Output

\* The overlay as the specification words it, key by key: a key of the
\* workflow context has the context's value; any other key written for a
\* dependency has the value of the last dependency that writes it, the whole
\* output for the dependency's identifier and the output's value for a key
\* of the output; any other key has the value of the workflow input.
OverlayInput(stepDef, instance) ==
    LET present == PresentDependencies(stepDef, instance)
        writes(d, k) == \/ k = stepDef.Dependencies[d]
                        \/ k \in DOMAIN DependencyOutput(stepDef, instance, d)
        keys == (DOMAIN instance.Input) \cup (DOMAIN instance.Context)
                   \cup UNION { {stepDef.Dependencies[d]}
                                  \cup DOMAIN DependencyOutput(stepDef, instance, d)
                                : d \in present }
    IN  [k \in keys |->
            IF k \in DOMAIN instance.Context THEN instance.Context[k]
            ELSE IF \E d \in present : writes(d, k)
            THEN LET last == CHOOSE d \in present :
                                /\ writes(d, k)
                                /\ \A e \in present : writes(e, k) => e <= d
                 IN  IF k = stepDef.Dependencies[last]
                     THEN Nested(DependencyOutput(stepDef, instance, last))
                     ELSE DependencyOutput(stepDef, instance, last)[k]
            ELSE instance.Input[k]]

\* C28, the input: the mapping executeStep hands to the executor of a step
\* is the overlay of the workflow input, the outputs of the step's
\* dependencies and the workflow context, as they are when the step is
\* entered.
C28_InputIsOverlay ==
    [][\A r \in Runs : \A i \in (DOMAIN run[r].task) \cap (DOMAIN run'[r].task) :
          /\ run[r].task[i].pc \in {"none", "spawned"}
          /\ run'[r].task[i].pc \in {"attempt", "panicked"}
          => run'[r].task[i].input = OverlayInput(DefOf(r).Steps[i], run[r].inst)]_vars

\* C28, the merge: when a step has succeeded its output is stored under the
\* step's identifier in the workflow context, and every key of the output is
\* written into the workflow context and into the workflow output.
C28_OutputIsMerged ==
    [][\A r \in Runs : \A i \in (DOMAIN run[r].task) \cap (DOMAIN run'[r].task) :
          /\ run[r].task[i].pc = "merging"
          /\ run'[r].task[i].pc = "returned"
          => LET stepID == DefOf(r).Steps[i].ID
                 output == run[r].inst.Steps[StepInstIndex(run[r].inst, stepID)].Output
                 after == run'[r].inst
             IN  /\ stepID \in DOMAIN after.Context
                 /\ after.Context[stepID] = Nested(output)
                 /\ \A k \in DOMAIN output :
                       /\ k \in DOMAIN after.Context /\ after.Context[k] = output[k]
                       /\ k \in DOMAIN after.Output /\ after.Output[k] = output[k]]_vars

\* C28, the final output: when a call that ran executeWorkflow reports
\* success, the output of its result has every key of the output of every
\* completed step instance of the workflow.
C28_FinalOutputHasStepKeys ==
    \A r \in Runs :
        Returned(r) /\ run[r].result.Success /\ run[r].task # <<>> =>
            \A step \in InFlightSteps(r) :
                step.Status = StepStatusCompleted =>
                    DOMAIN step.Output \subseteq DOMAIN run[r].result.Output

C30_NoSuccessAfterFailedWrite ==
    \A r \in Runs :
        Returned(r) /\ run[r].result.Success /\ run[r].task # <<>> =>
            \A step \in InFlightSteps(r) :
                /\ step.ID \in DOMAIN sm.steps
                /\ sm.steps[step.ID].Status = step.Status

\* The executor of the step has returned output to call r.
ExecutorSucceeded(r, stepID) ==
    \E k \in 1..Len(xlog) :
        xlog[k].run = r /\ xlog[k].step = stepID /\ xlog[k].ev = "ok"

\* The outcome of a call on a one-step definition when every SaveEvent
\* succeeds, as the executor's behaviour alone decides it.
OutcomeWithEvents(r) ==
    LET stepDef == DefOf(r).Steps[1]
        ok == ExecutorSucceeded(r, stepDef.ID)
    IN  [Success |-> ok \/ ~stepDef.Required,
         Workflow |-> IF ok \/ ~stepDef.Required
                      THEN WorkflowStatusCompleted ELSE WorkflowStatusFailed,
         Step |-> IF ok THEN StepStatusCompleted
                  ELSE IF stepDef.Required THEN StepStatusFailed
                  ELSE StepStatusSkipped]

\* C31: whichever SaveEvent calls fail, a call that has returned has the
\* result, the workflow status and the step status, in the returned instance
\* and in the state manager, of the run in which every SaveEvent succeeds.
C31_EventFailureIsHarmless ==
    \A r \in Runs :
        Returned(r) =>
            LET expected == OutcomeWithEvents(r)
            IN  /\ run[r].result.Success = expected.Success
                /\ run[r].inst.Status = expected.Workflow
                /\ sm.workflows[run[r].inst.ID].Status = expected.Workflow
                /\ \A step \in InFlightSteps(r) : step.Status = expected.Step
                /\ \A step \in PersistedSteps(r) : step.Status = expected.Step

\* A call has returned success although SaveEvent failed for some of its
\* events and succeeded for others.
C31_Witness ==
    \E r \in Runs :
        /\ Returned(r) /\ run[r].result.Success
        /\ ExecutorSucceeded(r, "s1")
        /\ Len(sm.events) > 0
        /\ \A k \in 1..Len(sm.events) : sm.events[k].EventType # "step.completed"
        /\ PersistedSteps(r) # {}

\* C32: a StartWorkflow or StartWorkflowAsync call with an identifier no
\* definition is registered under returns an error and saves nothing, and no
\* call makes an instance of an unregistered definition; a lookup in the
\* in-memory state manager of an identifier the table does not have returns
\* a not-found error and leaves the three tables as they are.
C32_UnknownLookupsAreInert ==
    [][/\ \A r \in Runs :
            /\ run[r].pc = "idle" /\ run'[r].pc = "executeWorkflow"
                  => run'[r].inst.WorkflowID \in DOMAIN workflows
            /\ run[r].pc = "idle" /\ run'[r].pc = "done" /\ run'[r].op \in {"start", "async"}
                  => /\ ~run'[r].result.Success
                     /\ run'[r].result.Error = PlainError("workflow not found")
                     /\ sm' = sm
       /\ Len(xlog') > Len(xlog) /\ xlog'[Len(xlog')].run = 0
             => LET call == xlog'[Len(xlog')]
                IN  call.id \notin DOMAIN LookupTable(sm, call.step)
                       => call.ev = "not found" /\ sm' = sm]_vars

\* The caller has started a workflow by an unregistered identifier while an
\* instance is stored, and has looked up, with a step update, an identifier
\* the steps table does not have while both tables have rows.
C32_Witness ==
    /\ \E r \in Runs : run[r].result.Error = PlainError("workflow not found")
    /\ sm.workflows # EmptyMap /\ sm.steps # EmptyMap
    /\ \E k \in 1..Len(xlog) :
          /\ xlog[k].run = 0 /\ xlog[k].step = "UpdateStepStatus"
          /\ xlog[k].id \in DOMAIN sm.workflows /\ xlog[k].ev = "not found"

\* C33: whatever a stored workflow instance's status is, UpdateWorkflowError
\* leaves it with the error passed and with status failed; whatever a stored
\* step instance's status is, UpdateStepError leaves it with the error passed
\* and with status failed.
C33_ErrorUpdateFails ==
    /\ \A id \in DOMAIN sm.workflows :
          LET after == UpdateWorkflowError(sm, id, PlainError("late")).workflows[id]
          IN  after.Error = PlainError("late") /\ after.Status = WorkflowStatusFailed
    /\ \A id \in DOMAIN sm.steps :
          LET after == UpdateStepError(sm, id, PlainError("late")).steps[id]
          IN  after.Error = PlainError("late") /\ after.Status = StepStatusFailed

\* The caller's UpdateWorkflowError and UpdateStepError have acted, and the
\* rows have been given a status that is not failed since: the next error
\* update starts from completed and from skipped.
C33_Witness ==
    /\ "test-workflow" \in DOMAIN sm.workflows /\ "test-step" \in DOMAIN sm.steps
    /\ sm.workflows["test-workflow"].Error = PlainError("boom")
    /\ sm.workflows["test-workflow"].Status = WorkflowStatusCompleted
    /\ sm.steps["test-step"].Error = PlainError("boom")
    /\ sm.steps["test-step"].Status = StepStatusSkipped

\* C34: GetWorkflowSteps returns the saved step instances of a workflow
\* instance ordered by execution order, and the same sequence on every call.
C34_StepsInExecutionOrder ==
    \A id \in DOMAIN sm.workflows :
        /\ \A steps \in GetWorkflowSteps(sm, id) :
              \A i, j \in 1..Len(steps) :
                  i < j => steps[i].ExecutionOrder <= steps[j].ExecutionOrder
        /\ Cardinality(GetWorkflowSteps(sm, id)) = 1

\* C35: a step without a retry policy, or with a policy whose MaxAttempts is
\* zero, that executeStep has taken up is, once the call is over, completed,
\* failed or skipped after exactly one invocation of its executor, and the
\* call has returned.
C35_EmptyPolicyAttemptsOnce ==
    \A r \in Runs : \A i \in DOMAIN run[r].task :
        LET stepDef == DefOf(r).Steps[i]
            step == run[r].inst.Steps[StepInstIndex(run[r].inst, stepDef.ID)]
        IN  /\ stepDef.RetryPolicy.isNil \/ stepDef.RetryPolicy.MaxAttempts = 0
            /\ run[r].pc \in {"done", "crashed"}
            /\ step.Status # StepStatusPending
            => /\ Returned(r)
               /\ Cardinality(InvocationsOf(r, stepDef.ID)) = 1
               /\ IsTerminalStepStatus(step.Status)

\* C36: the steps without dependencies make the first wave, and a step with
\* dependencies, whatever its priority and even when its dependencies are
\* done before the wave is over, is not started before every sync step of
\* the first wave has been invoked and has returned.
C36_WaveByWave ==
    \A r \in Runs : \A b, c \in DOMAIN run[r].task :
        LET first == DefOf(r).Steps[b]
            later == DefOf(r).Steps[c]
        IN  /\ first.Dependencies = <<>> /\ ~first.Async
            /\ later.Dependencies # <<>>
            /\ InvocationsOf(r, later.ID) # {}
            => /\ ReturnsOf(r, first.ID) # {}
               /\ \A k \in LogOf(r, first.ID) : \A m \in LogOf(r, later.ID) : k < m

\* s1 has returned output, so that every dependency of s3 is done; s3 has the
\* highest priority; the executor of the sync step s2 of the same wave as s1
\* is still running and s3 has not been started.
C36_Witness ==
    \E r \in Runs :
        /\ Len(run[r].task) = 3
        /\ DefOf(r).Steps[3].Dependencies = <<"s1">>
        /\ DefOf(r).Steps[3].Priority > DefOf(r).Steps[2].Priority
        /\ ~DefOf(r).Steps[1].Async /\ ~DefOf(r).Steps[2].Async
        /\ ExecutorSucceeded(r, "s1")
        /\ run[r].task[2].pc = "executing"
        /\ LogOf(r, "s3") = {}

\* The positions of the log after every entry of a step.
AfterLogOf(r, stepID) ==
    { m \in 1..Len(xlog) : xlog[m].run = r /\ \A k \in LogOf(r, stepID) : k < m }

C38_TerminalStatusIsFinal ==
    [][\A id \in DOMAIN sm.workflows :
          IsTerminalWorkflowStatus(sm.workflows[id].Status) =>
              /\ id \in DOMAIN sm'.workflows
              /\ sm'.workflows[id].Status = sm.workflows[id].Status]_vars

\* C39: at the step in which StartWorkflow returns with the workflow
\* completed or failed, the stored workflow has the status, the error and the
\* output of the instance in the result, and every step of the instance has a
\* stored row with the same status, output and retry count.
C39_PersistedAgreesWithResult ==
    [][\A r \in Runs :
          run[r].pc # "done" /\ run'[r].pc = "done" /\ run'[r].op = "start"
          /\ run'[r].task # <<>> =>
              LET instance == run'[r].inst
              IN  /\ instance.ID \in DOMAIN sm'.workflows
                  /\ sm'.workflows[instance.ID].Status = instance.Status
                  /\ sm'.workflows[instance.ID].Error = instance.Error
                  /\ sm'.workflows[instance.ID].Output = instance.Output
                  /\ \A k \in 1..Len(instance.Steps) :
                        /\ instance.Steps[k].ID \in DOMAIN sm'.steps
                        /\ sm'.steps[instance.Steps[k].ID].Status = instance.Steps[k].Status
                        /\ sm'.steps[instance.Steps[k].ID].Output = instance.Steps[k].Output
                        /\ sm'.steps[instance.Steps[k].ID].RetryCount
                              = instance.Steps[k].RetryCount]_vars

\* C40: a StartWorkflow call that has saved its instance returns, and the
\* instance it returns is completed or failed, whatever the registered
\* definition and whatever the executors return.
C40_StartWorkflowTerminates ==
    \A r \in Runs :
        (run[r].op = "start" /\ run[r].pc = "executeWorkflow")
            ~> (Returned(r) /\ run[r].inst.Status \in {WorkflowStatusCompleted,
                                                        WorkflowStatusFailed})
====
